---- MODULE Spec2Model ----
(***************************************************************************)
(* lua-mosquitto.c: Lua bindings to libmosquitto.                          *)
(*                                                                         *)
(* Six specifications over one set of variables:                           *)
(*   Spec        the client context: callback registration, native         *)
(*               deliveries through the trampolines, destroy and __gc;     *)
(*   StatusSpec  the thin host calls that hand a native result code to     *)
(*               mosq__pstatus;                                            *)
(*   CodecSpec   the v5 host calls: the property table is encoded by       *)
(*               create_property_list_from_lua_stack, the native call is   *)
(*               made, the list is freed, the status is translated.        *)
(*   DispatchSpec the thirteen trampolines and the property decoder        *)
(*               create_lua_stack_from_property_list;                      *)
(*   ReentrySpec a handler that calls callback_set or destroy on its own   *)
(*               client while its dispatch is in progress;                 *)
(*   LibSpec     module load, init and cleanup against the flag            *)
(*               mosq_initialized.                                         *)
(***************************************************************************)
EXTENDS Integers, Sequences, FiniteSets, TLC

VARIABLES
    \* ---- client context (ctx_t, the Lua registry, the native handle)
    metatable,   \* metatable of the ctx userdata: MOSQ_META_CTX or "empty"
    collected,   \* the userdata has been garbage-collected
    mosq,        \* ctx->mosq: "live" or "freed"
    nfree,       \* number of mosquitto_destroy calls made on ctx->mosq
    slots,       \* ctx->on_connect .. ctx->on_log: a registry reference each
    installed,   \* callback kinds whose trampoline the native library holds
    registry,    \* LUA_REGISTRYINDEX: reference -> value (or FreeRef)
    freelist,    \* the registry's list of released references, newest first
    acquired,    \* references luaL_ref has handed to ctx_callback_set
    last,        \* outcome of the last host call or native delivery
    \* ---- status translator
    st_rc,       \* native result code handed to the host call
    st_errno,    \* value of errno at that moment
    st_last,     \* outcome of the host call
    \* ---- property codec
    cx_in,       \* arguments of the v5 host call
    cx_out,      \* outcome of the v5 host call
    \* ---- property decoder and callback dispatch
    ev_in,       \* an event the native library delivers, with its properties
    ev_out,      \* outcome of the dispatch of that event
    \* ---- a handler in progress
    running,     \* the dispatch whose handler has not returned yet
    \* ---- the module and the native library
    mosq_initialized,  \* static int mosq_initialized
    lib_inits,   \* mosquitto_lib_init calls since the last mosquitto_lib_cleanup
    lib_trace    \* the module calls made so far

ctxvars == <<metatable, collected, mosq, nfree, slots, installed, registry,
             freelist, acquired, last>>
stvars  == <<st_rc, st_errno, st_last>>
cxvars  == <<cx_in, cx_out>>
dcvars  == <<ev_in, ev_out>>
auxvars == <<running, mosq_initialized, lib_inits, lib_trace>>
vars    == <<ctxvars, stvars, cxvars, dcvars, auxvars>>

\* ------------------------------------------------------------------ bounds
\* number of registry slots the model lets luaL_ref create
MaxRefs == 2
\* number of mosquitto_destroy calls the model lets one context make
MaxDestroys == 2

\* ------------------------------------------------------------- Lua values
\* values of the host call's stack: v is the text of the value
\* and n its integer value (0 when it has none)
None      == [t |-> "none", v |-> "none", n |-> 0]
Nil       == [t |-> "nil", v |-> "nil", n |-> 0]
Fn(h)     == [t |-> "function", v |-> h, n |-> 0]
Str(s)    == [t |-> "string", v |-> s, n |-> 0]
Num(s, i) == [t |-> "number", v |-> s, n |-> i]
Userdata  == [t |-> "userdata", v |-> "ctx", n |-> 0]
Bool(b)   == [t |-> "boolean", v |-> IF b THEN "true" ELSE "false", n |-> 0]

\* values a host call returns: v is an integer
RNil       == [t |-> "nil", v |-> 0]
RBool(b)   == [t |-> "boolean", v |-> IF b THEN 1 ELSE 0]
RInt(n)    == [t |-> "integer", v |-> n]
\* mosquitto_strerror(code) / strerror(errno): the message of that code
RMsg(code) == [t |-> "string", v |-> code]

Return(vals) == [shape |-> "return", vals |-> vals, err |-> ""]
\* luaL_error / luaL_argerror / luaL_check* / a failing lua_call: a Lua error
\* unwinds the call; err names the raising site, vals holds the message
Raise(err, vals) == [shape |-> "raise", vals |-> vals, err |-> err]

\* --------------------------------------------------------- mosq__pstatus
MOSQ_ERR_AUTH_CONTINUE == -4
MOSQ_ERR_SUCCESS == 0
MOSQ_ERR_NOMEM == 1
MOSQ_ERR_PROTOCOL == 2
MOSQ_ERR_INVAL == 3
MOSQ_ERR_NO_CONN == 4
MOSQ_ERR_CONN_LOST == 7
MOSQ_ERR_PAYLOAD_SIZE == 9
MOSQ_ERR_NOT_SUPPORTED == 10
MOSQ_ERR_ERRNO == 14
MOSQ_ERR_MALFORMED_UTF8 == 18
MOSQ_ERR_DUPLICATE_PROPERTY == 22
MOSQ_ERR_OCSP == 26

\* enum mosq_err_t of mosquitto.h
MosqErrT == MOSQ_ERR_AUTH_CONTINUE .. MOSQ_ERR_OCSP

\* mosq__pstatus with the MOSQ_ERR_CONN_LOST label moved to the raising group
mosq__pstatus_ConnLostRaises(mosq_errno, errno) ==
    CASE mosq_errno = MOSQ_ERR_SUCCESS -> Return(<<RBool(TRUE)>>)
      [] mosq_errno \in {MOSQ_ERR_INVAL, MOSQ_ERR_NOMEM, MOSQ_ERR_PROTOCOL,
                         MOSQ_ERR_NOT_SUPPORTED, MOSQ_ERR_CONN_LOST} ->
            Raise("luaL_error", <<RMsg(mosq_errno)>>)
      [] mosq_errno \in {MOSQ_ERR_NO_CONN, MOSQ_ERR_PAYLOAD_SIZE} ->
            Return(<<RNil, RInt(mosq_errno), RMsg(mosq_errno)>>)
      [] mosq_errno = MOSQ_ERR_ERRNO ->
            Return(<<RNil, RInt(errno), RMsg(errno)>>)
      [] OTHER -> Return(<<>>)

\* static int mosq__pstatus(lua_State *L, int mosq_errno)
mosq__pstatus(mosq_errno, errno) ==
    CASE mosq_errno = MOSQ_ERR_SUCCESS -> Return(<<RBool(TRUE)>>)
      [] mosq_errno \in {MOSQ_ERR_INVAL, MOSQ_ERR_NOMEM, MOSQ_ERR_PROTOCOL,
                         MOSQ_ERR_NOT_SUPPORTED} ->
            Raise("luaL_error", <<RMsg(mosq_errno)>>)
      [] mosq_errno \in {MOSQ_ERR_NO_CONN, MOSQ_ERR_CONN_LOST,
                         MOSQ_ERR_PAYLOAD_SIZE} ->
            Return(<<RNil, RInt(mosq_errno), RMsg(mosq_errno)>>)
      [] mosq_errno = MOSQ_ERR_ERRNO ->
            Return(<<RNil, RInt(errno), RMsg(errno)>>)
      \* the switch has no default: control reaches "return 0"
      [] OTHER -> Return(<<>>)

\* ------------------------------------------------------ the client context
\* enum callback_types: the callback type of value i is callback_types[i + 1],
\* named here by the ctx_t field that holds its registry reference
callback_types ==
    <<"on_connect", "on_connect_v5", "on_disconnect", "on_disconnect_v5",
      "on_publish", "on_publish_v5", "on_message", "on_message_v5",
      "on_subscribe", "on_subscribe_v5", "on_unsubscribe", "on_unsubscribe_v5",
      "on_log">>

Kinds == {callback_types[i] : i \in 1..Len(callback_types)}

MOSQ_META_CTX == "mosquitto.ctx"

\* lauxlib.h
LUA_REFNIL == -1

\* static const struct define D[]: <<name, value>>
D ==
    << <<"ON_CONNECT", 0>>, <<"ON_CONNECT_V5", 1>>, <<"ON_DISCONNECT", 2>>,
       <<"ON_DISCONNECT_V5", 3>>, <<"ON_PUBLISH", 4>>, <<"ON_PUBLISH_V5", 5>>,
       <<"ON_MESSAGE", 6>>, <<"ON_MESSAGE_V5", 7>>, <<"ON_SUBSCRIBE", 8>>,
       <<"ON_SUBSCRIBE_V5", 9>>, <<"ON_UNSUBSCRIBE", 10>>,
       <<"ON_UNSUBSCRIBE_V5", 11>>, <<"ON_LOG", 12>>,
       <<"LOG_NONE", 0>>, <<"LOG_INFO", 1>>, <<"LOG_NOTICE", 2>>,
       <<"LOG_WARNING", 4>>, <<"LOG_ERROR", 8>>, <<"LOG_DEBUG", 16>>,
       <<"LOG_ALL", 65535>>,
       <<"OPT_PROTOCOL_VERSION", 1>>, <<"OPT_SSL_CTX", 2>>,
       <<"OPT_SSL_CTX_WITH_DEFAULTS", 3>>, <<"OPT_RECEIVE_MAXIMUM", 4>>,
       <<"OPT_SEND_MAXIMUM", 5>>, <<"OPT_TLS_KEYFORM", 6>>,
       <<"OPT_TLS_ENGINE", 7>>, <<"OPT_TLS_ENGINE_KPASS_SHA1", 8>>,
       <<"OPT_TLS_OCSP_REQUIRED", 9>>, <<"OPT_TLS_ALPN", 10>>,
       <<"MQTT_PROTOCOL_V31", 3>>, <<"MQTT_PROTOCOL_V311", 4>>,
       <<"MQTT_PROTOCOL_V5", 5>>,
       <<"MQTT_SUB_OPT_NO_LOCAL", 4>>, <<"MQTT_SUB_OPT_RETAIN_AS_PUBLISHED", 8>>,
       <<"MQTT_SUB_OPT_SEND_RETAIN_ALWAYS", 0>>,
       <<"MQTT_SUB_OPT_SEND_RETAIN_NEW", 16>>,
       <<"MQTT_SUB_OPT_SEND_RETAIN_NEVER", 32>> >>

\* strstr(typestr, "ON_") == typestr: the texts of the model that begin with
\* "ON_" are the first thirteen names of D and the unregistered "ON_BOGUS"
HasOnPrefix(typestr) ==
    typestr \in {D[i][1] : i \in 1..Len(callback_types)} \cup {"ON_BOGUS"}

\* the lookup without the filter: any name of a define gives its value
callback_type_from_string_AnyDefine(typestr) ==
    LET hits == {i \in 1..Len(D) : D[i][1] = typestr}
    IN  IF hits = {} THEN -1
        ELSE D[CHOOSE i \in hits : \A j \in hits : i <= j][2]

\* static int callback_type_from_string(const char *typestr)
callback_type_from_string(typestr) ==
    IF ~HasOnPrefix(typestr) THEN -1
    ELSE LET hits == {i \in 1..Len(D) : D[i][1] = typestr}
         IN  IF hits = {} THEN -1
             ELSE D[CHOOSE i \in hits : \A j \in hits : i <= j][2]

\* the Lua stack of a method call: index 1 is the ctx userdata, the call's
\* arguments follow; an index past the top is LUA_TNONE
StackAt(args, i) ==
    IF i = 1 THEN Userdata
    ELSE IF i - 1 \in 1..Len(args) THEN args[i - 1] ELSE None

StackTop(args) == StackAt(args, Len(args) + 1)

lua_isstring(val)   == val.t \in {"string", "number"}
lua_isfunction(val) == val.t = "function"
lua_isboolean(val)  == val.t = "boolean"
lua_isnoneornil(val) == val.t \in {"none", "nil"}

\* luaL_ref(L, LUA_REGISTRYINDEX) on value val: nil is not stored; a released
\* reference is reused before the registry grows
luaL_ref(reg, fl, val) ==
    IF val.t = "nil"
    THEN [ref |-> LUA_REFNIL, registry |-> reg, freelist |-> fl]
    ELSE IF fl # 0
    THEN [ref |-> fl, registry |-> [reg EXCEPT ![fl] = val],
          freelist |-> reg[fl].n]
    ELSE [ref |-> Len(reg) + 1, registry |-> Append(reg, val), freelist |-> fl]

\* luaL_unref(L, LUA_REGISTRYINDEX, ref): the entry becomes the head of the
\* free list and holds the previous head; LUA_REFNIL and LUA_NOREF are ignored
luaL_unref(reg, fl, ref) ==
    IF ref >= 0 /\ ref \in 1..Len(reg)
    THEN [registry |-> [reg EXCEPT ![ref] = Num("link", fl)], freelist |-> ref]
    ELSE [registry |-> reg, freelist |-> fl]

\* lua_rawgeti(L, LUA_REGISTRYINDEX, ref)
lua_rawgeti(reg, ref) == IF ref \in 1..Len(reg) THEN reg[ref] ELSE Nil

\* references of the registry that hold a value (not on the free list)
RECURSIVE FreeRefs(_, _, _)
FreeRefs(reg, fl, fuel) ==
    IF fl = 0 \/ fuel = 0 \/ fl \notin 1..Len(reg) THEN {}
    ELSE {fl} \cup FreeRefs(reg, reg[fl].n, fuel - 1)

LiveRefs(reg, fl) == (1..Len(reg)) \ FreeRefs(reg, fl, Len(reg))

\* static void ctx__on_init(ctx_t *ctx)
ctx__on_init == [k \in Kinds |-> LUA_REFNIL]

\* static void ctx__on_clear(ctx_t *ctx): luaL_unref of the thirteen fields in
\* the order of the struct; the fields keep their values
RECURSIVE ctx__on_clear(_, _, _, _)
ctx__on_clear(i, sl, reg, fl) ==
    IF i > Len(callback_types) THEN [registry |-> reg, freelist |-> fl]
    ELSE LET u == luaL_unref(reg, fl, sl[callback_types[i]])
         IN  ctx__on_clear(i + 1, sl, u.registry, u.freelist)

\* luaL_checkinteger(L, i): a Lua error unless the value is a number
luaL_checkinteger(val) ==
    IF val.t = "number" THEN [ok |-> TRUE, n |-> val.n] ELSE [ok |-> FALSE, n |-> 0]

\* luaL_optstring(L, i, NULL): NULL for none or nil, the text of a string or
\* number, a Lua error for any other value
luaL_optstring(val) ==
    IF lua_isnoneornil(val) THEN [ok |-> TRUE, null |-> TRUE]
    ELSE IF lua_isstring(val) THEN [ok |-> TRUE, null |-> FALSE]
    ELSE [ok |-> FALSE, null |-> FALSE]

\* what the last host call or native delivery did
HostLast(op, res, uaf) ==
    [op |-> op, kind |-> "", res |-> res, slot |-> 0, callee |-> None,
     entered |-> FALSE, uaf |-> uaf, args |-> <<>>]

\* a host call of the method op with the arguments args after the ctx
HostCall(op, args, res, uaf) == [HostLast(op, res, uaf) EXCEPT !.args = args]

\* a trampoline that returns without calling what it fetched
ctx_on_event_NoCall(k, sl, reg) ==
    [op |-> "deliver", kind |-> k,
     res |-> [shape |-> "none", vals |-> <<>>, err |-> ""],
     slot |-> sl[k], callee |-> lua_rawgeti(reg, sl[k]), entered |-> TRUE,
     uaf |-> FALSE, args |-> <<>>]

\* the thirteen trampolines ctx_on_connect .. ctx_on_log, entered by the
\* native library for an event of kind k: lua_rawgeti of the field, the
\* arguments are pushed, lua_call
ctx_on_event(k, sl, reg) ==
    LET callee == lua_rawgeti(reg, sl[k])
    IN  [op |-> "deliver", kind |-> k,
         res |-> IF lua_isfunction(callee)
                 THEN [shape |-> "called", vals |-> <<>>, err |-> ""]
                 ELSE Raise("lua_call", <<>>),
         slot |-> sl[k], callee |-> callee, entered |-> TRUE, uaf |-> FALSE,
         args |-> <<>>]

\* the native library has no callback set for kind k: nothing is entered
NativeDrop(k, sl) ==
    [op |-> "deliver", kind |-> k,
     res |-> [shape |-> "none", vals |-> <<>>, err |-> ""],
     slot |-> sl[k], callee |-> None, entered |-> FALSE, uaf |-> FALSE,
     args |-> <<>>]

\* arguments the model passes to callback_set / __newindex after the ctx
SelPool ==
    {Str("ON_CONNECT"), Str("ON_MESSAGE_V5"), Str("ON_BOGUS"), Str("LOG_NONE"),
     Num("6", 6), Num("99", 99), Nil}
HandlerPool == {Fn("f1"), Fn("f2"), Nil, Str("x")}
CallbackSetArgs ==
    {<<sel, h>> : sel \in SelPool, h \in {Fn("f1"), Fn("f2")}}
    \cup {<<Str("ON_CONNECT"), h>> : h \in HandlerPool}
    \cup {<<Str("ON_CONNECT"), Fn("f1"), Nil>>, <<Str("ON_CONNECT")>>}

\* kinds of the events the model lets the native library deliver: the two
\* the model registers handlers for and one it never registers
DeliverPool == {"on_connect", "on_message_v5", "on_log"}

\* the test of the handler left out
HandlerOk_Unchecked(args) == TRUE

\* "if (!lua_isfunction(L, 3)) return luaL_argerror(L, 3, ...)"
HandlerOk(args) == lua_isfunction(StackAt(args, 3))

\* the switch taking the case after the one of the callback type
FieldOf_Next(callback_type) ==
    callback_types[((callback_type + 1) % Len(callback_types)) + 1]

\* "switch (callback_type)": the field of the ctx that the case of the
\* callback type assigns
FieldOf(callback_type) == callback_types[callback_type + 1]

\* the field keeping the reference it already has
StoredRef_KeepsFirst(old, ref) == IF old # LUA_REFNIL THEN old ELSE ref

\* "ctx->on_connect = ref;": the field takes the new reference, whatever
\* it held
StoredRef(old, ref) == ref

\* the body of ctx_callback_set, called with the arguments args after the ctx
CallbackSetBody(args) ==
    LET sel   == StackAt(args, 2)
        asint == luaL_checkinteger(sel)
        callback_type ==
            IF lua_isstring(sel) THEN callback_type_from_string(sel.v)
            ELSE asint.n
        r == luaL_ref(registry, freelist, StackTop(args))
        u == luaL_unref(r.registry, r.freelist, r.ref)
        got == {r.ref} \ {LUA_REFNIL}
    IN  IF ~lua_isstring(sel) /\ ~asint.ok
        THEN /\ last' = HostCall("callback_set", args,
                                  Raise("luaL_checkinteger", <<RInt(2)>>), FALSE)
             /\ UNCHANGED <<slots, installed, registry, freelist, acquired>>
        ELSE IF ~HandlerOk(args)
        THEN /\ last' = HostCall("callback_set", args,
                                  Raise("luaL_argerror", <<RInt(3)>>), FALSE)
             /\ UNCHANGED <<slots, installed, registry, freelist, acquired>>
        ELSE IF callback_type \in 0..(Len(callback_types) - 1)
        THEN /\ Len(r.registry) <= MaxRefs
             /\ slots' = [slots EXCEPT ![FieldOf(callback_type)] =
                               StoredRef(slots[FieldOf(callback_type)], r.ref)]
             /\ installed' = installed \cup {FieldOf(callback_type)}
             /\ registry' = r.registry
             /\ freelist' = r.freelist
             /\ acquired' = acquired \cup got
             /\ last' = HostCall("callback_set", args,
                                  mosq__pstatus(MOSQ_ERR_SUCCESS, 0), mosq = "freed")
        ELSE /\ Len(r.registry) <= MaxRefs
             /\ registry' = u.registry
             /\ freelist' = u.freelist
             /\ acquired' = acquired \cup got
             /\ last' = HostCall("callback_set", args,
                                  Raise("luaL_argerror", <<RInt(2)>>), FALSE)
             /\ UNCHANGED <<slots, installed>>

\* static int ctx_callback_set(lua_State *L), called by the host
ctx_callback_set ==
    /\ metatable = MOSQ_META_CTX /\ ~collected
    /\ \E args \in CallbackSetArgs : CallbackSetBody(args)
    /\ UNCHANGED <<metatable, collected, mosq, nfree, stvars, auxvars, cxvars, dcvars>>

\* the body of ctx_destroy, called with the arguments args after the ctx:
\* lua_setmetatable(L, -2) gives the empty table to the value under the top,
\* which is the ctx only when the call has no further argument
DestroyBody(args) ==
    LET c == ctx__on_clear(1, slots, registry, freelist)
    IN  /\ mosq' = "freed"
        /\ nfree' = nfree + 1
        /\ installed' = {}
        /\ registry' = c.registry
        /\ freelist' = c.freelist
        /\ metatable' = IF args = <<>> THEN "empty" ELSE metatable
        /\ last' = HostCall("destroy", args, mosq__pstatus(MOSQ_ERR_SUCCESS, 0),
                             mosq = "freed")
        /\ UNCHANGED <<slots, acquired>>

\* static int ctx_destroy(lua_State *L), called by the host
ctx_destroy ==
    /\ metatable = MOSQ_META_CTX /\ ~collected
    /\ nfree < MaxDestroys
    /\ \E args \in {<<>>, <<Str("x")>>} : DestroyBody(args)
    /\ UNCHANGED <<collected, stvars, auxvars, cxvars, dcvars>>

\* the __gc metamethod: ctx_destroy called by the collector with the ctx alone
ctx_gc ==
    /\ ~collected
    /\ collected' = TRUE
    /\ IF metatable = MOSQ_META_CTX
       THEN nfree < MaxDestroys /\ DestroyBody(<<>>)
       ELSE UNCHANGED <<mosq, nfree, installed, registry, freelist, metatable,
                        last, slots, acquired>>
    /\ UNCHANGED <<stvars, auxvars, cxvars, dcvars>>

\* static int ctx_reinitialise(lua_State *L)
ctx_reinitialise ==
    /\ metatable = MOSQ_META_CTX /\ ~collected
    /\ \E args \in {<<>>, <<Str("id")>>, <<Nil, Bool(FALSE)>>, <<Nil, Bool(TRUE)>>},
          rc \in {MOSQ_ERR_SUCCESS, MOSQ_ERR_INVAL} :
         LET id == luaL_optstring(StackAt(args, 1))
             clean_session ==
                 IF lua_isboolean(StackAt(args, 2))
                 THEN StackAt(args, 2).v = "true" ELSE TRUE
             c == ctx__on_clear(1, slots, registry, freelist)
         IN  IF ~id.ok
             THEN /\ last' = HostCall("reinitialise", args,
                                       Raise("luaL_optstring", <<RInt(1)>>), FALSE)
                  /\ UNCHANGED <<slots, installed, registry, freelist>>
             ELSE IF id.null /\ ~clean_session
             THEN /\ last' = HostCall("reinitialise", args,
                                       Raise("luaL_argerror", <<RInt(3)>>), FALSE)
                  /\ UNCHANGED <<slots, installed, registry, freelist>>
             ELSE /\ installed' = IF rc = MOSQ_ERR_INVAL THEN installed ELSE {}
                  /\ registry' = c.registry
                  /\ freelist' = c.freelist
                  /\ slots' = ctx__on_init
                  /\ last' = [HostCall("reinitialise", args, mosq__pstatus(rc, 0),
                                        mosq = "freed") EXCEPT !.entered = TRUE]
    /\ UNCHANGED <<metatable, collected, mosq, nfree, acquired, stvars, auxvars, cxvars, dcvars>>

\* the native library delivers an event of kind k to the client
Deliver ==
    /\ mosq = "live"
    /\ \E k \in DeliverPool :
         last' = IF k \in installed THEN ctx_on_event(k, slots, registry)
                 ELSE NativeDrop(k, slots)
    /\ UNCHANGED <<metatable, collected, mosq, nfree, slots, installed,
                   registry, freelist, acquired, stvars, auxvars, cxvars, dcvars>>

\* static int mosq_new(lua_State *L): the state of a new client
CtxInit ==
    /\ metatable = MOSQ_META_CTX
    /\ collected = FALSE
    /\ mosq = "live"
    /\ nfree = 0
    /\ slots = ctx__on_init
    /\ installed = {}
    /\ registry = <<>>
    /\ freelist = 0
    /\ acquired = {}
    /\ last = HostLast("new", Return(<<>>), FALSE)

NoCall == HostLast("none", Return(<<>>), FALSE)

StIdle == /\ st_rc = 0 /\ st_errno = 0 /\ st_last = NoCall
CxIdle == /\ cx_in = <<>> /\ cx_out = <<>>
DcIdle == /\ ev_in = <<>> /\ ev_out = <<>>

\* no handler is running
NoRun == [kind |-> "none", callee |-> None]
\* int luaopen_mosquitto(lua_State *L): the state after require "mosquitto"
Loaded == /\ mosq_initialized = 1 /\ lib_inits = 1 /\ lib_trace = <<>>
AuxIdle == running = NoRun /\ Loaded

Init == CtxInit /\ StIdle /\ CxIdle /\ DcIdle /\ AuxIdle

Next ==
    \/ ctx_callback_set
    \/ ctx_destroy
    \/ ctx_gc
    \/ ctx_reinitialise
    \/ Deliver

Spec == Init /\ [][Next]_vars

\* ------------------------------------------- handlers that call the client
\* A trampoline is a C function the native library calls from inside
\* mosquitto_loop and its like; lua_call returns to it when the handler
\* returns. Between the two the handler runs and may call methods of its
\* own client.

\* the handler of the dispatch d, if lua_call entered one
Run(d) ==
    IF d.res.shape = "called" THEN [kind |-> d.kind, callee |-> d.callee]
    ELSE NoRun

\* the native library delivers an event of kind k: the trampoline fetches
\* the handler from the registry and calls it
TrampolineEnter ==
    /\ mosq = "live" /\ running = NoRun
    /\ \E k \in DeliverPool :
         /\ last' = IF k \in installed THEN ctx_on_event(k, slots, registry)
                    ELSE NativeDrop(k, slots)
         /\ running' = IF k \in installed THEN Run(ctx_on_event(k, slots, registry))
                       ELSE NoRun
    /\ UNCHANGED <<metatable, collected, mosq, nfree, slots, installed,
                   registry, freelist, acquired, stvars, cxvars, dcvars,
                   mosq_initialized, lib_inits, lib_trace>>

\* the handler returns: lua_call returns to the trampoline, the trampoline
\* to the native library, which goes on with the handle it was working on
HandlerReturn ==
    /\ running # NoRun
    /\ running' = NoRun
    /\ last' = [HostLast("handler_return", Return(<<>>), mosq = "freed")
                    EXCEPT !.kind = running.kind, !.callee = running.callee]
    /\ UNCHANGED <<metatable, collected, mosq, nfree, slots, installed,
                   registry, freelist, acquired, stvars, cxvars, dcvars,
                   mosq_initialized, lib_inits, lib_trace>>

\* the calls of callback_set the host and the handlers make
ReentryArgs ==
    {<<Str("ON_CONNECT"), Fn("f1")>>, <<Str("ON_CONNECT"), Fn("f2")>>,
     <<Str("ON_MESSAGE_V5"), Fn("f1")>>, <<Str("LOG_NONE"), Fn("f2")>>}

\* ctx_callback_set called by the host, or by the handler that is running
ReentrantCallbackSet ==
    /\ metatable = MOSQ_META_CTX /\ ~collected
    /\ \E args \in ReentryArgs : CallbackSetBody(args)
    /\ UNCHANGED <<metatable, collected, mosq, nfree, stvars, auxvars, cxvars, dcvars>>

\* ctx_destroy called by the host, or by the handler that is running
ReentrantDestroy ==
    /\ metatable = MOSQ_META_CTX /\ ~collected
    /\ nfree < MaxDestroys
    /\ DestroyBody(<<>>)
    /\ UNCHANGED <<collected, stvars, auxvars, cxvars, dcvars>>

ReentryNext ==
    \/ ReentrantCallbackSet
    \/ ReentrantDestroy
    \/ TrampolineEnter
    \/ HandlerReturn

ReentrySpec == Init /\ [][ReentryNext]_vars

\* ------------------------------------------------- the status translator
\* values of errno the model lets a failing system call leave: ENOENT,
\* ECONNREFUSED
Errnos == {2, 111}

\* static int ctx_connect(lua_State *L), and every host call of the same
\* shape: one native call, its result code handed to mosq__pstatus
ctx_connect ==
    /\ st_last = NoCall
    /\ st_last' = HostLast("connect", mosq__pstatus(st_rc, st_errno), FALSE)
    /\ UNCHANGED <<st_rc, st_errno, ctxvars, auxvars, cxvars, dcvars>>

\* static int ctx_publish(lua_State *L): the message id on success
ctx_publish ==
    /\ st_last = NoCall
    /\ \E mid \in {1, 2} :
         st_last' = HostLast("publish",
                             IF st_rc # MOSQ_ERR_SUCCESS
                             THEN mosq__pstatus(st_rc, st_errno)
                             ELSE Return(<<RInt(mid)>>), FALSE)
    /\ UNCHANGED <<st_rc, st_errno, ctxvars, auxvars, cxvars, dcvars>>

\* static int mosq_topic_matches_sub(lua_State *L): the match on success
mosq_topic_matches_sub ==
    /\ st_last = NoCall
    /\ \E result \in BOOLEAN :
         st_last' = HostLast("topic_matches_sub",
                             IF st_rc # MOSQ_ERR_SUCCESS
                             THEN mosq__pstatus(st_rc, st_errno)
                             ELSE Return(<<RBool(result)>>), FALSE)
    /\ UNCHANGED <<st_rc, st_errno, ctxvars, auxvars, cxvars, dcvars>>

StatusInit ==
    /\ st_rc \in MosqErrT
    /\ st_errno \in Errnos
    /\ st_last = NoCall
    /\ CtxInit /\ CxIdle /\ DcIdle /\ AuxIdle

StatusNext ==
    \/ ctx_connect
    \/ ctx_publish
    \/ mosq_topic_matches_sub

StatusSpec == StatusInit /\ [][StatusNext]_vars

\* ------------------------------------------------------ the property codec
UINT8_MAX == 255
UINT16_MAX == 65535

\* A Lua number (a double) and a C int are kept as q * 65536 + r + f / 2 with
\* 0 <= r <= 65535 and f \in {0, 1}, so that values up to 2^32 and halves
\* are exact; a C integer has f = 0.
Limb == UINT16_MAX + 1
N(q, r, f) == [q |-> q, r |-> r, f |-> f]
Small(n) == N(0, n, 0)
Gt(x, y) == x.q > y.q \/ (x.q = y.q /\ x.r > y.r)

INT_MIN == N(-(Limb \div 2), 0, 0)
INT_MAX == N((Limb \div 2) - 1, UINT16_MAX, 0)
UINT32_MAX == N(UINT16_MAX, UINT16_MAX, 0)
\* largest value of an MQTT variable byte integer, 268435455
VARINT_MAX == N(4095, UINT16_MAX, 0)

\* conversion of a double to an integer value: the fraction is discarded
\* (truncation toward zero)
Trunc(x) ==
    IF x.f = 0 \/ x.q >= 0 THEN N(x.q, x.r, 0)
    ELSE IF x.r = UINT16_MAX THEN N(x.q + 1, 0, 0)
    ELSE N(x.q, x.r + 1, 0)

\* outcomes of the undefined double -> int conversion of a value outside the
\* range of int: the "integer indefinite" of SSE2 cvttsd2si, saturation
\* (ARM vcvt), or the low 32 bits of a wider conversion
IntConversions == {"indefinite", "saturate", "wrap"}

\* the int a truncated double tr converts to
IntOf(tr, ub) ==
    IF tr.q >= INT_MIN.q /\ tr.q <= INT_MAX.q THEN tr
    ELSE CASE ub = "indefinite" -> INT_MIN
           [] ub = "saturate" -> IF tr.q < 0 THEN INT_MIN ELSE INT_MAX
           [] OTHER -> N(((tr.q + Limb \div 2) % Limb) - Limb \div 2, tr.r, 0)

\* "int value = lua_tonumber(L, -1);"
DoubleToInt(x, ub) == IntOf(Trunc(x), ub)

\* the usual arithmetic conversion of an int compared with an unsigned int
ToUnsigned(value) == N(value.q % Limb, value.r, 0)

\* values of a properties table
LNum(x)      == [t |-> "number", num |-> x, bytes |-> <<>>, pairs |-> <<>>]
LStr(bytes)  == [t |-> "string", num |-> Small(0), bytes |-> bytes, pairs |-> <<>>]
LTab(pairs)  == [t |-> "table", num |-> Small(0), bytes |-> <<>>, pairs |-> pairs]
LBool        == [t |-> "boolean", num |-> Small(0), bytes |-> <<>>, pairs |-> <<>>]
\* keys of a table: a string, a number (s is its text) or a boolean
Key(s)       == [t |-> "string", s |-> s]
NumKey(s)    == [t |-> "number", s |-> s]
BoolKey      == [t |-> "boolean", s |-> ""]
Entry(k, v)  == [k |-> k, v |-> v]

\* the wire type of every property identifier, as the decoder's switch groups
\* them, with the name libmosquitto gives the identifier
PropTable ==
    << <<"payload-format-indicator", "BYTE">>,
       <<"request-problem-information", "BYTE">>,
       <<"request-response-information", "BYTE">>,
       <<"maximum-qos", "BYTE">>,
       <<"retain-available", "BYTE">>,
       <<"wildcard-subscription-available", "BYTE">>,
       <<"subscription-identifier-available", "BYTE">>,
       <<"shared-subscription-available", "BYTE">>,
       <<"server-keep-alive", "INT16">>,
       <<"receive-maximum", "INT16">>,
       <<"topic-alias-maximum", "INT16">>,
       <<"topic-alias", "INT16">>,
       <<"message-expiry-interval", "INT32">>,
       <<"session-expiry-interval", "INT32">>,
       <<"will-delay-interval", "INT32">>,
       <<"maximum-packet-size", "INT32">>,
       <<"subscription-identifier", "VARINT">>,
       <<"content-type", "STRING">>,
       <<"response-topic", "STRING">>,
       <<"assigned-client-identifier", "STRING">>,
       <<"authentication-method", "STRING">>,
       <<"response-information", "STRING">>,
       <<"server-reference", "STRING">>,
       <<"reason-string", "STRING">>,
       <<"authentication-data", "BINARY">>,
       <<"correlation-data", "BINARY">>,
       <<"user-property", "STRING_PAIR">> >>

PropNames == {PropTable[i][1] : i \in 1..Len(PropTable)}
TypeOf(identifier) ==
    PropTable[CHOOSE i \in 1..Len(PropTable) : PropTable[i][1] = identifier][2]

\* strcasecmp: the one text of the model that differs from a name by case
Lower(str) == IF str = "Content-Type" THEN "content-type" ELSE str

\* lua_tolstring(L, -2, NULL) of a key: NULL unless a string or a number
KeyText(k) ==
    IF k.t \in {"string", "number"} THEN [null |-> FALSE, s |-> k.s]
    ELSE [null |-> TRUE, s |-> ""]

\* mosquitto_string_to_property_info(propname, &identifier, &type); a
\* property identifier is named by its text
mosquitto_string_to_property_info(propname) ==
    IF ~propname.null /\ Lower(propname.s) \in PropNames
    THEN [rc |-> MOSQ_ERR_SUCCESS, identifier |-> Lower(propname.s),
          type |-> TypeOf(Lower(propname.s))]
    ELSE [rc |-> MOSQ_ERR_INVAL, identifier |-> "", type |-> ""]

\* a C string: the bytes before the first NUL
RECURSIVE CStr(_)
CStr(bytes) ==
    IF bytes = <<>> \/ Head(bytes) = 0 THEN <<>>
    ELSE <<Head(bytes)>> \o CStr(Tail(bytes))

\* mosquitto_validate_utf8 on the bytes of the model: printable ASCII passes,
\* the byte 0xFF does not
ValidUtf8(bytes) == \A i \in 1..Len(bytes) : bytes[i] \in 32..126

\* one mosquitto_property: num for the integer types, bytes for string and
\* binary values and the value of a pair, name for the name of a pair
Prop(identifier, num, name, bytes) ==
    [identifier |-> identifier, num |-> num, name |-> name, bytes |-> bytes]

\* state of the encoder: rc, the list built so far, and how the statement
\* ended: "next" (control goes on), "return", "raise" (a Lua error)
Enc(rc, list, exit) == [rc |-> rc, list |-> list, exit |-> exit]

\* mosquitto_property_add_byte / _int16 / _int32
mosquitto_property_add_int(list, identifier, value) ==
    Enc(MOSQ_ERR_SUCCESS, Append(list, Prop(identifier, value, <<>>, <<>>)), "next")

\* mosquitto_property_add_varint
mosquitto_property_add_varint(list, identifier, value) ==
    IF Gt(value, VARINT_MAX) THEN Enc(MOSQ_ERR_INVAL, list, "next")
    ELSE Enc(MOSQ_ERR_SUCCESS, Append(list, Prop(identifier, value, <<>>, <<>>)), "next")

\* mosquitto_property_add_binary(proplist, identifier, value, len)
mosquitto_property_add_binary(list, identifier, bytes, len) ==
    Enc(MOSQ_ERR_SUCCESS,
        Append(list, Prop(identifier, Small(0), <<>>, SubSeq(bytes, 1, len))), "next")

\* mosquitto_property_add_string(proplist, identifier, value)
mosquitto_property_add_string(list, identifier, bytes) ==
    IF ~ValidUtf8(CStr(bytes)) THEN Enc(MOSQ_ERR_MALFORMED_UTF8, list, "next")
    ELSE Enc(MOSQ_ERR_SUCCESS,
             Append(list, Prop(identifier, Small(0), <<>>, CStr(bytes))), "next")

\* mosquitto_property_add_string_pair(proplist, identifier, name, value):
\* only for the user property; a NULL value gives an empty value
mosquitto_property_add_string_pair(list, identifier, name, value) ==
    IF identifier # "user-property" THEN Enc(MOSQ_ERR_INVAL, list, "next")
    ELSE IF ~ValidUtf8(CStr(name)) \/ ~ValidUtf8(CStr(value))
    THEN Enc(MOSQ_ERR_MALFORMED_UTF8, list, "next")
    ELSE Enc(MOSQ_ERR_SUCCESS,
             Append(list, Prop(identifier, Small(0), CStr(name), CStr(value))), "next")

\* "switch(type){ ... }" on the int value of a number
EncodeInt(list, identifier, type, value) ==
    CASE type = "BYTE" ->
           IF value.q < 0 \/ Gt(value, Small(UINT8_MAX))
           THEN Enc(MOSQ_ERR_INVAL, list, "next")
           ELSE mosquitto_property_add_int(list, identifier, value)
      [] type = "INT16" ->
           IF value.q < 0 \/ Gt(value, Small(UINT16_MAX))
           THEN Enc(MOSQ_ERR_INVAL, list, "next")
           ELSE mosquitto_property_add_int(list, identifier, value)
      [] type = "INT32" ->
           IF value.q < 0 \/ Gt(ToUnsigned(value), UINT32_MAX)
           THEN Enc(MOSQ_ERR_INVAL, list, "next")
           ELSE mosquitto_property_add_int(list, identifier, value)
      [] type = "VARINT" ->
           IF value.q < 0 \/ Gt(ToUnsigned(value), UINT32_MAX)
           THEN Enc(MOSQ_ERR_INVAL, list, "next")
           ELSE mosquitto_property_add_varint(list, identifier, value)
      [] OTHER -> Enc(MOSQ_ERR_INVAL, list, "return")

\* "if (luatype == LUA_TNUMBER) { int value = lua_tonumber(L, -1); ... }"
EncodeNumber(list, identifier, type, x, ub) ==
    EncodeInt(list, identifier, type, DoubleToInt(x, ub))

\* "else if (luatype == LUA_TSTRING) { ... }"
EncodeString(list, identifier, type, bytes) ==
    CASE type = "BINARY" ->
           LET szt == Len(CStr(bytes))
           IN  IF szt > UINT16_MAX THEN Enc(MOSQ_ERR_INVAL, list, "next")
               ELSE mosquitto_property_add_binary(list, identifier, bytes, szt)
      [] type = "STRING" -> mosquitto_property_add_string(list, identifier, bytes)
      [] OTHER -> Enc(MOSQ_ERR_INVAL, list, "return")

\* lua_tolstring(L, -1, NULL) of an inner value: NULL unless string or number
\* (the only numbers the model nests are single digits)
ValueText(val) ==
    IF val.t = "string" THEN val.bytes
    ELSE IF val.t = "number" THEN <<48 + val.num.r>>
    ELSE <<>>

\* "else if (luatype == LUA_TTABLE) { ... }": the inner loop; rc is assigned
\* by every pair and read only after the loop
RECURSIVE EncodeTable(_, _, _, _)
EncodeTable(st, identifier, pairs, i) ==
    IF i > Len(pairs) THEN st
    ELSE IF pairs[i].k.t # "string" THEN Enc(st.rc, st.list, "raise")
    ELSE EncodeTable(
             mosquitto_property_add_string_pair(
                 st.list, identifier, pairs[i].k.s, ValueText(pairs[i].v)),
             identifier, pairs, i + 1)

\* the else branch without its assignment: rc keeps the success of the lookup
EncodeOther_KeepsRc(list) == Enc(MOSQ_ERR_SUCCESS, list, "next")

\* "else { rc = MOSQ_ERR_INVAL; }": can only parse string, number and table
EncodeOther(list) == Enc(MOSQ_ERR_INVAL, list, "next")

\* the body of the outer loop after the key was looked up (info): the break
\* on an unknown name, else the value by its Lua type
EncodeValue(st, e, ub, info) ==
    IF info.rc # MOSQ_ERR_SUCCESS THEN Enc(info.rc, st.list, "next")
    ELSE CASE e.v.t = "number" ->
                EncodeNumber(st.list, info.identifier, info.type, e.v.num, ub)
           [] e.v.t = "string" ->
                EncodeString(st.list, info.identifier, info.type, e.v.bytes)
           [] e.v.t = "table" ->
                EncodeTable(Enc(info.rc, st.list, "next"), info.identifier,
                            e.v.pairs, 1)
           [] OTHER -> EncodeOther(st.list)

\* one iteration of the outer loop on the entry e, up to the test of rc
EncodeEntry(st, e, ub) ==
    EncodeValue(st, e, ub, mosquitto_string_to_property_info(KeyText(e.k)))

\* "while (lua_next(L, index) != 0) { ... }": EncodeLoop visits entry i,
\* EncodeBreak is the test of rc that ends the iteration
RECURSIVE EncodeLoop(_, _, _, _)
RECURSIVE EncodeBreak(_, _, _, _)
EncodeBreak(s1, tbl, i, ub) ==
    IF s1.exit # "next" \/ s1.rc # MOSQ_ERR_SUCCESS THEN s1
    ELSE EncodeLoop(s1, tbl, i + 1, ub)

EncodeLoop(st, tbl, i, ub) ==
    IF i > Len(tbl) THEN st
    ELSE EncodeBreak(EncodeEntry(st, tbl[i], ub), tbl, i, ub)

\* mosquitto_property_check_command(command, identifier)
mosquitto_property_check_command(command, identifier) ==
    LET allowed ==
          CASE identifier \in {"payload-format-indicator", "message-expiry-interval",
                               "content-type", "response-topic", "correlation-data"} ->
                 {"CMD_PUBLISH", "CMD_WILL"}
            [] identifier = "subscription-identifier" -> {"CMD_PUBLISH", "CMD_SUBSCRIBE"}
            [] identifier = "session-expiry-interval" ->
                 {"CMD_CONNECT", "CMD_CONNACK", "CMD_DISCONNECT"}
            [] identifier \in {"authentication-method", "authentication-data"} ->
                 {"CMD_CONNECT", "CMD_CONNACK", "CMD_AUTH"}
            [] identifier \in {"assigned-client-identifier", "server-keep-alive",
                               "response-information", "maximum-qos", "retain-available",
                               "wildcard-subscription-available",
                               "subscription-identifier-available",
                               "shared-subscription-available"} -> {"CMD_CONNACK"}
            [] identifier = "will-delay-interval" -> {"CMD_WILL"}
            [] identifier \in {"request-problem-information",
                               "request-response-information"} -> {"CMD_CONNECT"}
            [] identifier = "server-reference" -> {"CMD_CONNACK", "CMD_DISCONNECT"}
            [] identifier = "reason-string" ->
                 {"CMD_CONNACK", "CMD_PUBACK", "CMD_PUBREC", "CMD_PUBREL", "CMD_PUBCOMP",
                  "CMD_SUBACK", "CMD_UNSUBACK", "CMD_DISCONNECT", "CMD_AUTH", "CMD_WILL"}
            [] identifier \in {"receive-maximum", "topic-alias-maximum",
                               "maximum-packet-size"} -> {"CMD_CONNECT", "CMD_CONNACK"}
            [] identifier = "topic-alias" -> {"CMD_PUBLISH"}
            [] OTHER -> {"CMD_CONNECT", "CMD_CONNACK", "CMD_PUBLISH", "CMD_PUBACK",
                         "CMD_PUBREC", "CMD_PUBREL", "CMD_PUBCOMP", "CMD_SUBSCRIBE",
                         "CMD_SUBACK", "CMD_UNSUBSCRIBE", "CMD_UNSUBACK",
                         "CMD_DISCONNECT", "CMD_AUTH", "CMD_WILL"}
    IN  IF command \in allowed THEN MOSQ_ERR_SUCCESS ELSE MOSQ_ERR_PROTOCOL

\* mosquitto_property_check_all(command, properties): the value checks, the
\* command check and the duplicate check of each property in turn
RECURSIVE mosquitto_property_check_all(_, _, _)
mosquitto_property_check_all(command, list, i) ==
    IF i > Len(list) THEN MOSQ_ERR_SUCCESS
    ELSE LET p == list[i]
             ty == TypeOf(p.identifier)
         IN  IF ty = "BYTE" /\ Gt(p.num, Small(1)) THEN MOSQ_ERR_PROTOCOL
             ELSE IF p.identifier = "maximum-packet-size" /\ p.num = Small(0)
             THEN MOSQ_ERR_PROTOCOL
             ELSE IF p.identifier \in {"receive-maximum", "topic-alias"}
                     /\ p.num = Small(0)
             THEN MOSQ_ERR_PROTOCOL
             ELSE IF mosquitto_property_check_command(command, p.identifier)
                     # MOSQ_ERR_SUCCESS
             THEN MOSQ_ERR_PROTOCOL
             ELSE IF p.identifier # "user-property"
                     /\ \E j \in (i + 1)..Len(list) : list[j].identifier = p.identifier
             THEN MOSQ_ERR_DUPLICATE_PROPERTY
             ELSE mosquitto_property_check_all(command, list, i + 1)

\* outcome of create_property_list_from_lua_stack: the code returned, the
\* list *proplist points to afterwards, the properties it had appended, and
\* whether a Lua error left the function instead of a return
EncResult(rc, list, appended, raised) ==
    [ran |-> TRUE, rc |-> rc, list |-> list, appended |-> appended,
     raised |-> raised,
     checked |-> FALSE]    \* mosquitto_property_check_all was reached

\* the end of the function with the verdict of the check ignored
EncodeEnd_IgnoresCheck(st, command) ==
    IF st.exit = "raise" THEN EncResult(st.rc, st.list, st.list, TRUE)
    ELSE IF st.exit = "return" THEN EncResult(st.rc, st.list, st.list, FALSE)
    ELSE IF st.rc # MOSQ_ERR_SUCCESS
    THEN EncResult(st.rc, <<>>, st.list, FALSE)
    ELSE [EncResult(MOSQ_ERR_SUCCESS, st.list, st.list, FALSE) EXCEPT !.checked = TRUE]

\* what follows the outer loop, st being the state it ended in: a return or
\* a Lua error from inside the loop leaves the list as it is; otherwise the
\* list is freed when rc is a failure, then checked against the command
EncodeEnd(st, command) ==
    IF st.exit = "raise" THEN EncResult(st.rc, st.list, st.list, TRUE)
    ELSE IF st.exit = "return" THEN EncResult(st.rc, st.list, st.list, FALSE)
    ELSE IF st.rc # MOSQ_ERR_SUCCESS
    THEN EncResult(st.rc, <<>>, st.list, FALSE)
    ELSE IF mosquitto_property_check_all(command, st.list, 1) # MOSQ_ERR_SUCCESS
    THEN [EncResult(MOSQ_ERR_INVAL, <<>>, st.list, FALSE) EXCEPT !.checked = TRUE]
    ELSE [EncResult(MOSQ_ERR_SUCCESS, st.list, st.list, FALSE) EXCEPT !.checked = TRUE]

\* static int create_property_list_from_lua_stack(L, index, proplist, command);
\* tbl is the table in the order lua_next visits it, rc0 the value the
\* uninitialised local rc happens to hold
create_property_list_from_lua_stack(tbl, command, rc0, ub) ==
    EncodeEnd(EncodeLoop(Enc(rc0, <<>>, "next"), tbl, 1, ub), command)

\* proplist stays NULL: the properties argument is no table
NotEncoded ==
    [ran |-> FALSE, rc |-> MOSQ_ERR_SUCCESS, list |-> <<>>, appended |-> <<>>,
     raised |-> FALSE, checked |-> FALSE]

\* static int lua_table_on_stack(L, index)
lua_table_on_stack(arg) == arg.given

\* outcome of one v5 host call
V5Outcome(op, command, enc, native, passed, nrc, lib_owned, res) ==
    [op |-> op, command |-> command, enc |-> enc,
     native |-> native,          \* the native operation was called
     passed |-> passed,          \* the property list handed to it
     nrc |-> nrc,                \* the code it returned
     host_free |-> native,       \* mosquitto_property_free_all(&proplist) ran
     lib_owned |-> lib_owned,    \* the library took the list over
     leaked |-> IF native THEN <<>> ELSE enc.list,
     res |-> res]

NoOutcome ==
    V5Outcome("none", "", NotEncoded, FALSE, <<>>, MOSQ_ERR_SUCCESS, FALSE,
              Return(<<>>))

\* the body the six v5 operations share: the optional encode, the early
\* return on its failure, the native call, the release of the list and the
\* translation of the native code; returnsMid for the operations that push
\* the message id on success, owns for mosquitto_will_set_v5, which keeps the
\* list it is given when it succeeds
V5Rest(op, command, enc, nrc, mid, returnsMid, owns) ==
    IF enc.raised
    THEN V5Outcome(op, command, enc, FALSE, <<>>, MOSQ_ERR_SUCCESS, FALSE,
                   Raise("luaL_checktype", <<>>))
    ELSE IF enc.rc # MOSQ_ERR_SUCCESS
    THEN V5Outcome(op, command, enc, FALSE, <<>>, MOSQ_ERR_SUCCESS, FALSE,
                   mosq__pstatus(enc.rc, 0))
    ELSE V5Outcome(op, command, enc, TRUE, enc.list, nrc,
                   owns /\ nrc = MOSQ_ERR_SUCCESS /\ enc.list # <<>>,
                   IF returnsMid /\ nrc = MOSQ_ERR_SUCCESS
                   THEN Return(<<RInt(mid)>>)
                   ELSE mosq__pstatus(nrc, 0))

V5Body(op, command, arg, rc0, ub, nrc, mid, returnsMid, owns) ==
    V5Rest(op, command,
           IF lua_table_on_stack(arg)
           THEN create_property_list_from_lua_stack(arg.props, command, rc0, ub)
           ELSE NotEncoded,
           nrc, mid, returnsMid, owns)

\* ---- inputs of the codec
MaxEntries == 2

Minus(n) == N(-1, Limb - n, 0)
NumPool ==
    {Minus(1), N(-1, UINT16_MAX, 1), Small(0), Small(1), Small(2),
     Small(UINT8_MAX), N(0, UINT8_MAX, 1), Small(UINT8_MAX + 1),
     Small(UINT16_MAX), N(1, 0, 0), INT_MAX, N(Limb \div 2, 0, 0),
     UINT32_MAX, N(Limb, 0, 0)}
StrPool == {<<97>>, <<97, 0, 98>>, <<255>>, <<>>}
InnerPool ==
    {<<>>,
     <<Entry(Key(<<97>>), LStr(<<120>>))>>,
     <<Entry(Key(<<97>>), LStr(<<120>>)), Entry(Key(<<98>>), LStr(<<121>>))>>,
     <<Entry(Key(<<97>>), LStr(<<255>>)), Entry(Key(<<98>>), LStr(<<121>>))>>,
     <<Entry(Key(<<97>>), LBool)>>,
     <<Entry(NumKey(<<49>>), LStr(<<120>>))>>}
ValuePool ==
    {LNum(x) : x \in NumPool} \cup {LStr(b) : b \in StrPool}
        \cup {LTab(t) : t \in InnerPool} \cup {LBool}
KeyPool ==
    {Key("payload-format-indicator"), Key("topic-alias"),
     Key("message-expiry-interval"), Key("subscription-identifier"),
     Key("content-type"), Key("correlation-data"), Key("user-property"),
     Key("session-expiry-interval"), Key("bogus-name"), Key("Content-Type"),
     NumKey("1"), BoolKey}

\* entries that tables of more than one entry are made of
CoreEntries ==
    {Entry(Key("content-type"), LStr(<<97>>)),
     Entry(Key("message-expiry-interval"), LNum(Small(UINT8_MAX))),
     Entry(Key("message-expiry-interval"), LStr(<<97>>)),
     Entry(Key("payload-format-indicator"), LNum(Minus(1))),
     Entry(Key("user-property"), LTab(<<Entry(Key(<<97>>), LStr(<<120>>))>>)),
     Entry(Key("user-property"), LTab(<<Entry(NumKey(<<49>>), LStr(<<120>>))>>)),
     Entry(Key("correlation-data"), LNum(Small(1))),
     Entry(Key("response-topic"), LBool),
     Entry(Key("session-expiry-interval"), LNum(Small(1))),
     Entry(Key("bogus-name"), LNum(Small(1)))}

RECURSIVE TablesOfLen(_)
TablesOfLen(n) ==
    IF n = 0 THEN {<<>>}
    ELSE {Append(t, e) : t \in TablesOfLen(n - 1), e \in CoreEntries}

DistinctKeys(t) == \A i, j \in 1..Len(t) : i # j => t[i].k # t[j].k

\* a table is the sequence of its entries in the order lua_next visits them
Tables ==
    {<<>>} \cup {<<Entry(k, v)>> : k \in KeyPool, v \in ValuePool}
        \cup {t \in UNION {TablesOfLen(n) : n \in 2..MaxEntries} : DistinctKeys(t)}

\* an arbitrary int in the uninitialised local rc
UninitPool == {MOSQ_ERR_SUCCESS, MOSQ_ERR_INVAL, MOSQ_ERR_NO_CONN, MOSQ_ERR_OCSP + 1}
NativeRcPool == {MOSQ_ERR_SUCCESS, MOSQ_ERR_NO_CONN, MOSQ_ERR_INVAL}
Mids == {1, 2}

\* ---- the v5 operations; each is called once on the arguments in cx_in
ctx_will_set_v5 ==
    /\ cx_out.op = "none"
    /\ \E rc0 \in UninitPool, ub \in IntConversions, nrc \in NativeRcPool, mid \in Mids :
         cx_out' = V5Body("will_set_v5", "CMD_WILL", cx_in, rc0, ub, nrc, mid, FALSE, TRUE)
    /\ UNCHANGED <<cx_in, ctxvars, stvars, auxvars, dcvars>>

ctx_connect_bind_v5 ==
    /\ cx_out.op = "none"
    /\ \E rc0 \in UninitPool, ub \in IntConversions, nrc \in NativeRcPool, mid \in Mids :
         cx_out' = V5Body("connect_bind_v5", "CMD_CONNECT", cx_in, rc0, ub, nrc, mid, FALSE, FALSE)
    /\ UNCHANGED <<cx_in, ctxvars, stvars, auxvars, dcvars>>

ctx_disconnect_v5 ==
    /\ cx_out.op = "none"
    /\ \E rc0 \in UninitPool, ub \in IntConversions, nrc \in NativeRcPool, mid \in Mids :
         cx_out' = V5Body("disconnect_v5", "CMD_DISCONNECT", cx_in, rc0, ub, nrc, mid, FALSE, FALSE)
    /\ UNCHANGED <<cx_in, ctxvars, stvars, auxvars, dcvars>>

ctx_publish_v5 ==
    /\ cx_out.op = "none"
    /\ \E rc0 \in UninitPool, ub \in IntConversions, nrc \in NativeRcPool, mid \in Mids :
         cx_out' = V5Body("publish_v5", "CMD_PUBLISH", cx_in, rc0, ub, nrc, mid, TRUE, FALSE)
    /\ UNCHANGED <<cx_in, ctxvars, stvars, auxvars, dcvars>>

ctx_subscribe_v5 ==
    /\ cx_out.op = "none"
    /\ \E rc0 \in UninitPool, ub \in IntConversions, nrc \in NativeRcPool, mid \in Mids :
         cx_out' = V5Body("subscribe_v5", "CMD_SUBSCRIBE", cx_in, rc0, ub, nrc, mid, TRUE, FALSE)
    /\ UNCHANGED <<cx_in, ctxvars, stvars, auxvars, dcvars>>

ctx_unsubscribe_v5 ==
    /\ cx_out.op = "none"
    /\ \E rc0 \in UninitPool, ub \in IntConversions, nrc \in NativeRcPool, mid \in Mids :
         cx_out' = V5Body("unsubscribe_v5", "CMD_UNSUBSCRIBE", cx_in, rc0, ub, nrc, mid, TRUE, FALSE)
    /\ UNCHANGED <<cx_in, ctxvars, stvars, auxvars, dcvars>>

\* ------------------------------------------------- the property decoder
\* values on the Lua stack of a callback; a table is the set of its fields
DV(t, num, bytes, pairs, text) ==
    [t |-> t, num |-> num, bytes |-> bytes, pairs |-> pairs, text |-> text]
DFn        == DV("function", Small(0), <<>>, {}, "")
DInt(x)    == DV("number", x, <<>>, {}, "")
DStr(b)    == DV("string", Small(0), b, {}, "")
DBool(b)   == DV("boolean", Small(IF b THEN 1 ELSE 0), <<>>, {}, "")
DTab(flds) == DV("table", Small(0), <<>>, flds, "")
\* a string literal of the source
DText(s)   == DV("string", Small(0), <<>>, {}, s)
\* the texts libmosquitto has for a code
mosquitto_connack_string(rc) == DV("string", Small(rc), <<>>, {}, "connack_string")
mosquitto_reason_string(rc)  == DV("string", Small(rc), <<>>, {}, "reason_string")

\* keys of fields: the name of a property identifier, or the bytes of a
\* C string
NameKey(name) == [s |-> name, b |-> <<>>]
ByteKey(b)    == [s |-> "", b |-> b]
Field(k, v)   == [k |-> k, v |-> v]

\* width of lua_Integer: ptrdiff_t in Lua 5.1 and 5.2, 64 bits in Lua 5.3
IntegerWidths == {32, 64}

\* lua_pushinteger(L, v) of an unsigned 32-bit value v
PushInteger(x, lint) ==
    IF lint = 32 /\ x.q >= Limb \div 2 THEN DInt(N(x.q - Limb, x.r, 0)) ELSE DInt(x)

\* t[k] = v on the fields of a table
SetField(flds, k, v) == {f \in flds : f.k # k} \cup {Field(k, v)}

\* state of the decoder: the Lua stack, user_prop_table_created, the code it
\* returns, the number of values read into fresh memory so far
Dec(stack, upc, rc, reads) ==
    [stack |-> stack, upc |-> upc, rc |-> rc, reads |-> reads]

\* lua_setfield(L, idx, k) for a negative idx: the value on top goes into the
\* table at idx and is popped
lua_setfield(stack, idx, k) ==
    LET pos == Len(stack) + 1 + idx
    IN  [i \in 1..(Len(stack) - 1) |->
           IF i = pos
           THEN DTab(SetField(stack[i].pairs, k, stack[Len(stack)]))
           ELSE stack[i]]

\* the store below with the index of the root table fixed at -2
StoreInRoot_FixedIndex(st, name, v) ==
    Dec(lua_setfield(Append(st.stack, v), -2, NameKey(name)),
        st.upc, st.rc, st.reads)

\* "if(pushed){ lua_setfield(L, -2 - user_prop_table_created, name); }" with
\* the value v pushed by the case of the switch
StoreInRoot(st, name, v) ==
    Dec(lua_setfield(Append(st.stack, v), -2 - st.upc, NameKey(name)),
        st.upc, st.rc, st.reads)

\* the nested table created at every occurrence
OpenUserTable_EveryTime(st) ==
    Dec(Append(st.stack, DTab({})), 1, st.rc, st.reads)

\* "case MQTT_PROP_USER_PROPERTY:" up to the read: the nested table is
\* created at the first occurrence only
OpenUserTable(st) ==
    IF st.upc = 0 THEN Dec(Append(st.stack, DTab({})), 1, st.rc, st.reads)
    ELSE st

\* the rest of the case, st being the state after OpenUserTable: the read,
\* the return when it gave no name or value, else t[strname] = strvalue in
\* the table on top
StorePair(st, p, oom) ==
    IF st.reads + 1 = oom
    THEN Dec(st.stack, st.upc, MOSQ_ERR_NOMEM, st.reads + 1)
    ELSE Dec(lua_setfield(Append(st.stack, DStr(CStr(p.bytes))), -2,
                          ByteKey(CStr(p.name))),
             st.upc, st.rc, st.reads + 1)

\* the cases of strings and binary data: the read, the return when it gave
\* no value, else the value is stored under the name
StoreBytes(st, p, v, oom) ==
    IF st.reads + 1 = oom
    THEN Dec(st.stack, st.upc, MOSQ_ERR_NOMEM, st.reads + 1)
    ELSE StoreInRoot(Dec(st.stack, st.upc, st.rc, st.reads + 1), p.identifier, v)

\* one iteration of "for(prop=properties; prop != NULL; ...)": the switch on
\* the identifier of the property p
DecodeProp(st, p, oom, lint) ==
    CASE TypeOf(p.identifier) \in {"BYTE", "INT16", "INT32", "VARINT"} ->
           StoreInRoot(st, p.identifier, PushInteger(p.num, lint))
      [] TypeOf(p.identifier) = "STRING" ->
           StoreBytes(st, p, DStr(CStr(p.bytes)), oom)
      [] TypeOf(p.identifier) = "BINARY" ->
           StoreBytes(st, p, DStr(p.bytes), oom)
      [] OTHER -> StorePair(OpenUserTable(st), p, oom)

\* the loop, left by "return MOSQ_ERR_NOMEM" as soon as a read fails
RECURSIVE DecodeLoop(_, _, _, _, _)
DecodeLoop(st, list, i, oom, lint) ==
    IF i > Len(list) \/ st.rc # MOSQ_ERR_SUCCESS THEN st
    ELSE DecodeLoop(DecodeProp(st, list[i], oom, lint), list, i + 1, oom, lint)

\* after the loop: the user property table goes into the root table
DecodeEnd(st) ==
    IF st.rc = MOSQ_ERR_SUCCESS /\ st.upc = 1
    THEN Dec(lua_setfield(st.stack, -2, NameKey("user-property")),
             st.upc, st.rc, st.reads)
    ELSE st

\* static int create_lua_stack_from_property_list(L, properties), called
\* with the values stack on the Lua stack; the read number oom finds no
\* memory (0: every read succeeds)
create_lua_stack_from_property_list(stack, list, oom, lint) ==
    DecodeEnd(DecodeLoop(Dec(Append(stack, DTab({})), 0, MOSQ_ERR_SUCCESS, 0),
                         list, 1, oom, lint))

\* ------------------------------------------------------ the trampolines
\* what libmosquitto hands a callback: the fields of the event, its property
\* list, and, of the run, the read that finds no memory and the width of
\* lua_Integer
BaseEvent ==
    [kind |-> "none", mid |-> 0, rc |-> 0, flags |-> 0, topic |-> <<>>,
     payload |-> <<>>, qos |-> 0, retain |-> FALSE, granted |-> <<>>,
     level |-> 0, str |-> <<>>, props |-> <<>>, oom |-> 0, lint |-> 64]

\* what a trampoline did: the code of the decoder, the value lua_call took
\* as the function, its arguments, and what stayed below it
NoHandlerCall ==
    [op |-> "none", rc |-> MOSQ_ERR_SUCCESS, called |-> FALSE, callee |-> DFn,
     args |-> <<>>, below |-> <<>>, root |-> {}]

\* the root table the decoder made: the first value above the n values the
\* trampoline pushed before it
RootOf(stack, n) == IF Len(stack) > n THEN stack[n + 1].pairs ELSE {}

\* lua_call(L, nargs, 0): the function is the value below the nargs
\* arguments; a value that is not a function raises
lua_call(op, stack, nargs, rc, root) ==
    [op |-> op, rc |-> rc,
     called |-> stack[Len(stack) - nargs].t = "function",
     callee |-> stack[Len(stack) - nargs],
     args |-> SubSeq(stack, Len(stack) - nargs + 1, Len(stack)),
     below |-> SubSeq(stack, 1, Len(stack) - nargs - 1),
     root |-> root]

\* the call that follows create_lua_stack_from_property_list, whose return
\* value no trampoline looks at; d is the state the decoder left, n the
\* number of values pushed before it
CallDecoded(op, d, n, nargs) ==
    lua_call(op, d.stack, nargs, d.rc, RootOf(d.stack, n))

\* "for (i = 0; i < qos_count; i++) lua_pushinteger(L, granted_qos[i]);"
PushGranted(stack, granted) ==
    stack \o [i \in 1..Len(granted) |-> DInt(Small(granted[i]))]

\* ctx_on_subscribe_v5 pushing the granted QoS values before the properties
CallGranted_PropsLast(op, d, n, granted) ==
    lua_call(op, <<d.stack[1], d.stack[2]>> \o PushGranted(<<>>, granted)
                     \o SubSeq(d.stack, 3, Len(d.stack)),
             Len(granted) + 2, d.rc, RootOf(d.stack, n))

\* ctx_on_subscribe_v5 after the decoder: the granted QoS values, the call
CallGranted(op, d, n, granted) ==
    lua_call(op, PushGranted(d.stack, granted), Len(granted) + 2, d.rc,
             RootOf(d.stack, n))

\* lua_rawgeti(L, LUA_REGISTRYINDEX, ctx->on_...): the trampoline is
\* installed for a slot that holds a function
Handler == DFn

\* "bool success = true; char *str = ...; if (rc) { ... }"
DisconnectText(rc) ==
    IF rc # 0 THEN DText("unexpected disconnect")
    ELSE DText("client-initiated disconnect")

Pending(kind) == ev_in.kind = kind /\ ev_out.op = "none"

ctx_on_connect ==
    /\ Pending("connect")
    /\ ev_out' = lua_call("connect",
                          <<Handler, DBool(ev_in.rc = 0), DInt(Small(ev_in.rc)),
                            mosquitto_connack_string(ev_in.rc)>>,
                          3, MOSQ_ERR_SUCCESS, {})
    /\ UNCHANGED <<ev_in, cxvars, ctxvars, stvars, auxvars>>

ctx_on_connect_v5 ==
    /\ Pending("connect_v5")
    /\ ev_out' = CallDecoded("connect_v5",
                     create_lua_stack_from_property_list(
                         <<Handler, DBool(ev_in.rc = 0), DInt(Small(ev_in.rc)),
                           mosquitto_reason_string(ev_in.rc),
                           DInt(Small(ev_in.flags))>>,
                         ev_in.props, ev_in.oom, ev_in.lint),
                     5, 5)
    /\ UNCHANGED <<ev_in, cxvars, ctxvars, stvars, auxvars>>

ctx_on_disconnect ==
    /\ Pending("disconnect")
    /\ ev_out' = lua_call("disconnect",
                          <<Handler, DBool(ev_in.rc = 0), DInt(Small(ev_in.rc)),
                            DisconnectText(ev_in.rc)>>,
                          3, MOSQ_ERR_SUCCESS, {})
    /\ UNCHANGED <<ev_in, cxvars, ctxvars, stvars, auxvars>>

ctx_on_disconnect_v5 ==
    /\ Pending("disconnect_v5")
    /\ ev_out' = CallDecoded("disconnect_v5",
                     create_lua_stack_from_property_list(
                         <<Handler, DBool(ev_in.rc = 0), DInt(Small(ev_in.rc)),
                           DisconnectText(ev_in.rc)>>,
                         ev_in.props, ev_in.oom, ev_in.lint),
                     4, 4)
    /\ UNCHANGED <<ev_in, cxvars, ctxvars, stvars, auxvars>>

ctx_on_publish ==
    /\ Pending("publish")
    /\ ev_out' = lua_call("publish", <<Handler, DInt(Small(ev_in.mid))>>,
                          1, MOSQ_ERR_SUCCESS, {})
    /\ UNCHANGED <<ev_in, cxvars, ctxvars, stvars, auxvars>>

ctx_on_publish_v5 ==
    /\ Pending("publish_v5")
    /\ ev_out' = CallDecoded("publish_v5",
                     create_lua_stack_from_property_list(
                         <<Handler, DInt(Small(ev_in.mid)), DInt(Small(ev_in.rc)),
                           mosquitto_reason_string(ev_in.rc)>>,
                         ev_in.props, ev_in.oom, ev_in.lint),
                     4, 4)
    /\ UNCHANGED <<ev_in, cxvars, ctxvars, stvars, auxvars>>

ctx_on_message ==
    /\ Pending("message")
    /\ ev_out' = lua_call("message",
                          <<Handler, DInt(Small(ev_in.mid)), DStr(CStr(ev_in.topic)),
                            DStr(ev_in.payload), DInt(Small(ev_in.qos)),
                            DBool(ev_in.retain)>>,
                          5, MOSQ_ERR_SUCCESS, {})
    /\ UNCHANGED <<ev_in, cxvars, ctxvars, stvars, auxvars>>

ctx_on_message_v5 ==
    /\ Pending("message_v5")
    /\ ev_out' = CallDecoded("message_v5",
                     create_lua_stack_from_property_list(
                         <<Handler, DInt(Small(ev_in.mid)), DStr(CStr(ev_in.topic)),
                           DStr(ev_in.payload), DInt(Small(ev_in.qos)),
                           DBool(ev_in.retain)>>,
                         ev_in.props, ev_in.oom, ev_in.lint),
                     6, 6)
    /\ UNCHANGED <<ev_in, cxvars, ctxvars, stvars, auxvars>>

ctx_on_subscribe ==
    /\ Pending("subscribe")
    /\ ev_out' = lua_call("subscribe",
                          PushGranted(<<Handler, DInt(Small(ev_in.mid))>>,
                                      ev_in.granted),
                          Len(ev_in.granted) + 1, MOSQ_ERR_SUCCESS, {})
    /\ UNCHANGED <<ev_in, cxvars, ctxvars, stvars, auxvars>>

ctx_on_subscribe_v5 ==
    /\ Pending("subscribe_v5")
    /\ ev_out' = CallGranted("subscribe_v5",
                     create_lua_stack_from_property_list(
                         <<Handler, DInt(Small(ev_in.mid))>>,
                         ev_in.props, ev_in.oom, ev_in.lint),
                     2, ev_in.granted)
    /\ UNCHANGED <<ev_in, cxvars, ctxvars, stvars, auxvars>>

ctx_on_unsubscribe ==
    /\ Pending("unsubscribe")
    /\ ev_out' = lua_call("unsubscribe", <<Handler, DInt(Small(ev_in.mid))>>,
                          1, MOSQ_ERR_SUCCESS, {})
    /\ UNCHANGED <<ev_in, cxvars, ctxvars, stvars, auxvars>>

ctx_on_unsubscribe_v5 ==
    /\ Pending("unsubscribe_v5")
    /\ ev_out' = CallDecoded("unsubscribe_v5",
                     create_lua_stack_from_property_list(
                         <<Handler, DInt(Small(ev_in.mid))>>,
                         ev_in.props, ev_in.oom, ev_in.lint),
                     2, 2)
    /\ UNCHANGED <<ev_in, cxvars, ctxvars, stvars, auxvars>>

ctx_on_log ==
    /\ Pending("log")
    /\ ev_out' = lua_call("log",
                          <<Handler, DInt(Small(ev_in.level)), DStr(CStr(ev_in.str))>>,
                          2, MOSQ_ERR_SUCCESS, {})
    /\ UNCHANGED <<ev_in, cxvars, ctxvars, stvars, auxvars>>

\* ---- the events of the dispatch
MaxWire == 3
MaxGranted == 2

\* properties a broker sends
WirePool ==
    {Prop("content-type", Small(0), <<>>, <<97>>),
     Prop("content-type", Small(0), <<>>, <<98>>),
     Prop("session-expiry-interval", UINT32_MAX, <<>>, <<>>),
     Prop("correlation-data", Small(0), <<>>, <<97, 0, 98>>),
     Prop("user-property", Small(0), <<97>>, <<120>>),
     Prop("user-property", Small(0), <<97>>, <<121>>),
     Prop("user-property", Small(0), <<98>>, <<122>>)}

RECURSIVE WireOfLen(_)
WireOfLen(n) ==
    IF n = 0 THEN {<<>>}
    ELSE {Append(l, p) : l \in WireOfLen(n - 1), p \in WirePool}

WireLists == UNION {WireOfLen(n) : n \in 0..MaxWire}

\* the read that fails: none, the first, the second
OomPool == 0..2

\* the granted QoS values of a SUBACK: 0x80 is a refused subscription
GrantedSource == <<1, 0, 2, 128, 1>>
GrantedPool == {SubSeq(GrantedSource, 1, n) : n \in 0..MaxGranted}

RcPool == {0, 5}
PayloadPool == {<<>>, <<1, 0, 2>>}

\* the events of the callbacks without properties
PlainEvents ==
    {[BaseEvent EXCEPT !.kind = "connect", !.rc = rc] : rc \in RcPool}
    \cup {[BaseEvent EXCEPT !.kind = "disconnect", !.rc = rc] : rc \in RcPool}
    \cup {[BaseEvent EXCEPT !.kind = "publish", !.mid = m] : m \in Mids}
    \cup {[BaseEvent EXCEPT !.kind = "message", !.mid = 1, !.topic = <<116>>,
                            !.payload = b, !.qos = 1, !.retain = r] :
              b \in PayloadPool, r \in BOOLEAN}
    \cup {[BaseEvent EXCEPT !.kind = "subscribe", !.mid = 1, !.granted = g] :
              g \in GrantedPool}
    \cup {[BaseEvent EXCEPT !.kind = "unsubscribe", !.mid = m] : m \in Mids}
    \cup {[BaseEvent EXCEPT !.kind = "log", !.level = 1, !.str = s] :
              s \in {<<>>, <<108>>}}

\* the events of the v5 callbacks, before their property list
V5Events ==
    {[BaseEvent EXCEPT !.kind = "connect_v5", !.rc = rc, !.flags = 1 - rc \div 5] :
         rc \in RcPool}
    \cup {[BaseEvent EXCEPT !.kind = "disconnect_v5", !.rc = rc] : rc \in RcPool}
    \cup {[BaseEvent EXCEPT !.kind = "publish_v5", !.mid = 1, !.rc = rc] :
              rc \in RcPool}
    \cup {[BaseEvent EXCEPT !.kind = "message_v5", !.mid = 1, !.topic = <<116>>,
                            !.payload = b, !.qos = 1, !.retain = TRUE] :
              b \in PayloadPool}
    \cup {[BaseEvent EXCEPT !.kind = "subscribe_v5", !.mid = 1, !.granted = g] :
              g \in GrantedPool}
    \cup {[BaseEvent EXCEPT !.kind = "unsubscribe_v5", !.mid = 1]}

DispatchInit ==
    /\ \/ ev_in \in PlainEvents
       \/ \E e \in V5Events, l \in WireLists, o \in OomPool, w \in IntegerWidths :
            ev_in = [e EXCEPT !.props = l, !.oom = o, !.lint = w]
    /\ ev_out = NoHandlerCall
    /\ CtxInit /\ StIdle /\ CxIdle /\ AuxIdle

DispatchNext ==
    \/ ctx_on_connect
    \/ ctx_on_connect_v5
    \/ ctx_on_disconnect
    \/ ctx_on_disconnect_v5
    \/ ctx_on_publish
    \/ ctx_on_publish_v5
    \/ ctx_on_message
    \/ ctx_on_message_v5
    \/ ctx_on_subscribe
    \/ ctx_on_subscribe_v5
    \/ ctx_on_unsubscribe
    \/ ctx_on_unsubscribe_v5
    \/ ctx_on_log

DispatchSpec == DispatchInit /\ [][DispatchNext]_vars

\* ---- the codec with a peer: the broker hands the properties of a
\* publication to the subscribers, here to the client itself
BrokerLoopback ==
    /\ cx_out.op = "publish_v5" /\ cx_out.native /\ cx_out.nrc = MOSQ_ERR_SUCCESS
    /\ ev_in.kind = "none"
    /\ \E w \in IntegerWidths :
         ev_in' = [BaseEvent EXCEPT !.kind = "message_v5", !.mid = 1,
                                    !.topic = <<116>>, !.props = cx_out.passed,
                                    !.lint = w]
    /\ UNCHANGED <<ev_out, cxvars, ctxvars, stvars, auxvars>>

CodecInit ==
    /\ cx_in \in {[given |-> TRUE, props |-> t] : t \in Tables}
                   \cup {[given |-> FALSE, props |-> <<>>]}
    /\ cx_out = NoOutcome
    /\ ev_in = BaseEvent /\ ev_out = NoHandlerCall
    /\ CtxInit /\ StIdle /\ AuxIdle

CodecNext ==
    \/ ctx_will_set_v5
    \/ ctx_connect_bind_v5
    \/ ctx_disconnect_v5
    \/ ctx_publish_v5
    \/ ctx_subscribe_v5
    \/ ctx_unsubscribe_v5
    \/ BrokerLoopback
    \/ ctx_on_message_v5

CodecSpec == CodecInit /\ [][CodecNext]_vars

\* -------------------------------------------- the module and the library
\* number of module calls the model follows
MaxLibCalls == 7

\* before the module is loaded: "static int mosq_initialized = 0;"
LibInit ==
    /\ mosq_initialized = 0 /\ lib_inits = 0 /\ lib_trace = <<>>
    /\ running = NoRun
    /\ CtxInit /\ StIdle /\ CxIdle /\ DcIdle

ModuleLoaded == \E i \in 1..Len(lib_trace) : lib_trace[i] = "luaopen"

\* int luaopen_mosquitto(lua_State *L): require "mosquitto" runs the loader
\* once and answers later calls from package.loaded
luaopen_mosquitto ==
    /\ ~ModuleLoaded
    /\ lib_inits' = lib_inits + 1
    /\ mosq_initialized' = 1
    /\ lib_trace' = Append(lib_trace, "luaopen")
    /\ UNCHANGED <<ctxvars, stvars, cxvars, dcvars, running>>

\* static int mosq_init(lua_State *L)
mosq_init ==
    /\ ModuleLoaded /\ Len(lib_trace) < MaxLibCalls
    /\ lib_inits' = IF mosq_initialized = 0 THEN lib_inits + 1 ELSE lib_inits
    /\ lib_trace' = Append(lib_trace, "init")
    /\ UNCHANGED <<mosq_initialized, ctxvars, stvars, cxvars, dcvars, running>>

\* static int mosq_cleanup(lua_State *L)
mosq_cleanup ==
    /\ ModuleLoaded /\ Len(lib_trace) < MaxLibCalls
    /\ lib_inits' = 0
    /\ mosq_initialized' = 0
    /\ lib_trace' = Append(lib_trace, "cleanup")
    /\ UNCHANGED <<ctxvars, stvars, cxvars, dcvars, running>>

LibNext ==
    \/ luaopen_mosquitto
    \/ mosq_init
    \/ mosq_cleanup

LibSpec == LibInit /\ [][LibNext]_vars

\* ------------------------------------------------------------------ claims
\* the context is usable: it has its methods and its native handle
Live == metatable = MOSQ_META_CTX /\ ~collected /\ mosq = "live"

\* C1: after any sequence of registrations on a live context, the registry
\* references the context has acquired and not released are exactly the
\* references its slots hold: a re-registration has released the previous one.
C1_OneLiveRefPerKind ==
    Live => LiveRefs(registry, freelist) = {slots[k] : k \in Kinds} \ {LUA_REFNIL}

\* C2: when destroy returns, no reference acquired by a registration on the
\* context is still held in the registry.
C2_NoRefHeldAfterDestroy ==
    last.op = "destroy" => acquired \cap LiveRefs(registry, freelist) = {}

\* C3: a native delivery of an event of kind k while slot k is Unregistered
\* (LUA_REFNIL) invokes no handler and raises no error.
C3_SilentDrop ==
    (last.op = "deliver" /\ last.slot = LUA_REFNIL) => last.res.shape = "none"

\* the recoverable native codes
Recoverable ==
    {MOSQ_ERR_NO_CONN, MOSQ_ERR_CONN_LOST, MOSQ_ERR_PAYLOAD_SIZE, MOSQ_ERR_ERRNO}

\* C4: a host call whose native code is neither success nor recoverable
\* raises a hard failure; no non-success code gives an empty result.
C4_OtherCodesRaise ==
    (st_last # NoCall /\ st_rc # MOSQ_ERR_SUCCESS /\ st_rc \notin Recoverable)
        => st_last.res.shape = "raise"

\* C5: a host call whose native code is recoverable returns the three values
\* nil, a numeric code and the message of that code, and does not raise.
C5_RecoverableStructured ==
    (st_last # NoCall /\ st_rc \in Recoverable)
        => LET code == IF st_rc = MOSQ_ERR_ERRNO THEN st_errno ELSE st_rc
           IN  st_last.res = Return(<<RNil, RInt(code), RMsg(code)>>)

C5_Witness ==
    /\ st_rc = MOSQ_ERR_CONN_LOST
    /\ st_last.op = "publish"
    /\ st_last.res = Return(<<RNil, RInt(MOSQ_ERR_CONN_LOST), RMsg(MOSQ_ERR_CONN_LOST)>>)

\* a v5 operation has been called on the arguments, and what its encode did
V5Done == cx_out.op # "none"
EncodeFailed ==
    cx_out.enc.ran /\ (cx_out.enc.raised \/ cx_out.enc.rc # MOSQ_ERR_SUCCESS)
EncodeSucceeded ==
    cx_out.enc.ran /\ ~cx_out.enc.raised /\ cx_out.enc.rc = MOSQ_ERR_SUCCESS

\* C6: when the encode of a v5 operation fails, no property it appended
\* stays allocated and the native operation is not called.
C6_FailureReleasesAll ==
    (V5Done /\ EncodeFailed) => (cx_out.leaked = <<>> /\ ~cx_out.native)

\* C7: the encode of an empty map succeeds with an empty property list, so
\* the native operation is called with no properties.
C7_EmptyMapSucceeds ==
    (V5Done /\ cx_in.given /\ cx_in.props = <<>>)
        => (EncodeSucceeded /\ cx_out.enc.list = <<>> /\ cx_out.native
            /\ cx_out.passed = <<>>)

\* the number x lies in the unsigned range of the wire type
InUnsignedRange(type, x) ==
    LET max == CASE type = "BYTE" -> Small(UINT8_MAX)
                 [] type = "INT16" -> Small(UINT16_MAX)
                 [] OTHER -> UINT32_MAX
    IN  /\ x.q >= 0
        /\ ~Gt(x, max)
        /\ ~(x.f = 1 /\ x.q = max.q /\ x.r = max.r)

\* the table is one entry whose key is the name of a property that the
\* command of the called operation may carry
OneLegalEntry ==
    /\ V5Done /\ cx_in.given /\ Len(cx_in.props) = 1
    /\ cx_in.props[1].k.t = "string"
    /\ cx_in.props[1].k.s \in PropNames
    /\ mosquitto_property_check_command(cx_out.command, cx_in.props[1].k.s)
           = MOSQ_ERR_SUCCESS

\* C8: a number given for a property is accepted exactly when the wire type
\* of the property is Byte, Int16 or Int32 and the number lies in 0..255,
\* 0..65535 or 0..4294967295; a negative number, a number above the range and
\* a number for a property of a non-numeric type are rejected.
C8_NumberAcceptedIffInRange ==
    (/\ OneLegalEntry
     /\ cx_in.props[1].v.t = "number"
     /\ TypeOf(cx_in.props[1].k.s) # "VARINT")
        => (EncodeSucceeded
              <=> (/\ TypeOf(cx_in.props[1].k.s) \in {"BYTE", "INT16", "INT32"}
                   /\ InUnsignedRange(TypeOf(cx_in.props[1].k.s),
                                      cx_in.props[1].v.num)))

\* C9: a nested map given for a property other than the user property makes
\* the encode fail, the empty nested map included; a nested map given for
\* the user property yields one user-property entry per inner pair.
C9_NestedOnlyForUserProperty ==
    (OneLegalEntry /\ cx_in.props[1].v.t = "table")
        => IF TypeOf(cx_in.props[1].k.s) # "STRING_PAIR" THEN EncodeFailed
           ELSE EncodeSucceeded
                  => /\ Len(cx_out.enc.list) = Len(cx_in.props[1].v.pairs)
                     /\ \A i \in 1..Len(cx_out.enc.list) :
                          cx_out.enc.list[i].identifier = "user-property"

\* the key is the name of a property, whatever its case
Registered(k) == k.t = "string" /\ Lower(k.s) \in PropNames

\* C10: a map with a key that is no registered property name makes the
\* encode fail, whatever its other entries and their order; so does a map
\* with a value that is neither number, string nor table. The native
\* operation is then not called.
C10_UnknownKeyOrShapeFails ==
    (/\ V5Done /\ cx_in.given
     /\ \E i \in 1..Len(cx_in.props) :
          \/ ~Registered(cx_in.props[i].k)
          \/ cx_in.props[i].v.t \notin {"number", "string", "table"})
        => (EncodeFailed /\ ~cx_out.native)

\* reached: publish_v5 on a table whose first entry was appended and whose
\* second has an unknown name; and on a table whose only value is a boolean
C10_Witness ==
    /\ cx_out.op = "publish_v5"
    /\ \/ /\ Len(cx_in.props) = 2
          /\ cx_in.props[2].k = Key("bogus-name")
          /\ Len(cx_out.enc.appended) = 1
       \/ /\ Len(cx_in.props) = 1
          /\ cx_in.props[1].k = Key("content-type")
          /\ cx_in.props[1].v = LBool
    /\ cx_out.enc.rc = MOSQ_ERR_INVAL
    /\ ~cx_out.native

\* the command kind of each v5 operation
CommandOf ==
    [will_set_v5 |-> "CMD_WILL", connect_bind_v5 |-> "CMD_CONNECT",
     disconnect_v5 |-> "CMD_DISCONNECT", publish_v5 |-> "CMD_PUBLISH",
     subscribe_v5 |-> "CMD_SUBSCRIBE", unsubscribe_v5 |-> "CMD_UNSUBSCRIBE"]

\* the list holds a property that the command may not carry
HasIllegal(list, command) ==
    \E i \in 1..Len(list) :
      mosquitto_property_check_command(command, list[i].identifier)
          # MOSQ_ERR_SUCCESS

\* C11: when all entries of the table have been processed, the v5 operation
\* has the built list checked against its own command kind; a list with a
\* property illegal for that command makes the encode fail, the list is
\* released and the native operation is not called.
C11_CheckedAgainstOwnCommand ==
    (V5Done /\ cx_out.enc.checked)
        => /\ cx_out.command = CommandOf[cx_out.op]
           /\ HasIllegal(cx_out.enc.appended, CommandOf[cx_out.op])
                => /\ EncodeFailed
                   /\ cx_out.enc.list = <<>> /\ cx_out.leaked = <<>>
                   /\ ~cx_out.native

\* reached: unsubscribe_v5 with a content type and a user property, both
\* appended, the first illegal for UNSUBSCRIBE
C11_Witness ==
    /\ cx_out.op = "unsubscribe_v5"
    /\ cx_out.enc.checked
    /\ Len(cx_out.enc.appended) = 2
    /\ HasIllegal(cx_out.enc.appended, "CMD_UNSUBSCRIBE")
    /\ cx_out.enc.rc = MOSQ_ERR_INVAL
    /\ cx_out.res.shape = "raise"

\* C18: the list a v5 operation built is passed to one native call and
\* released once, by the operation, right after the call, whatever the call
\* returned: nobody else holds or releases the list.
C18_ReleasedExactlyOnce ==
    (V5Done /\ cx_out.native)
        => (cx_out.passed = cx_out.enc.list /\ cx_out.host_free /\ ~cx_out.lib_owned)

\* the slot of the event kind with the numeric id n
SlotOfId(n) == callback_types[n + 1]

\* C14: callback_set with the numeric id of an event kind and a function
\* registers the function in the slot of that kind, as the symbolic name does.
C14_NumericIdRegisters ==
    (/\ last.op = "callback_set"
     /\ Len(last.args) = 2
     /\ last.args[1].t = "number"
     /\ last.args[1].n \in 0..(Len(callback_types) - 1)
     /\ lua_isfunction(last.args[2]))
        => /\ last.res.shape = "return"
           /\ lua_rawgeti(registry, slots[SlotOfId(last.args[1].n)]) = last.args[2]

\* C15: a step of callback_set whose handler argument is not a function ends
\* in an error and changes no slot, no registry reference and no installed
\* trampoline.
C15_NonFunctionRejected ==
    [][(last'.op = "callback_set" /\ ~lua_isfunction(StackAt(last'.args, 3)))
          => (/\ last'.res.shape = "raise"
              /\ UNCHANGED <<slots, installed, registry, freelist, acquired>>)]_vars

\* reached: a nil handler is refused for a kind whose handler stays registered
C15_Witness ==
    /\ last.op = "callback_set"
    /\ last.args = <<Str("ON_CONNECT"), Nil>>
    /\ last.res = Raise("luaL_argerror", <<RInt(3)>>)
    /\ lua_isfunction(lua_rawgeti(registry, slots["on_connect"]))
    /\ "on_connect" \in installed

\* C17: reinitialise with the client id omitted or nil and clean session
\* true or omitted reaches the native reinitialise and leaves every slot
\* Unregistered.
C17_ReinitialiseClears ==
    (last.op = "reinitialise" /\ last.args \in {<<>>, <<Nil, Bool(TRUE)>>})
        => (last.entered /\ \A k \in Kinds : slots[k] = LUA_REFNIL)

\* ---- round trip and decoding
\* the value is valid for the wire type
ValidValue(type, v) ==
    CASE type \in {"BYTE", "INT16", "INT32"} ->
           v.t = "number" /\ v.num.f = 0 /\ InUnsignedRange(type, v.num)
      [] type = "VARINT" ->
           v.t = "number" /\ v.num.f = 0 /\ v.num.q >= 0 /\ ~Gt(v.num, VARINT_MAX)
      [] type = "STRING" -> v.t = "string" /\ ValidUtf8(v.bytes)
      [] type = "BINARY" -> v.t = "string"
      [] OTHER ->
           /\ v.t = "table" /\ v.pairs # <<>>
           /\ \A i \in 1..Len(v.pairs) :
                /\ v.pairs[i].k.t = "string" /\ ValidUtf8(v.pairs[i].k.s)
                /\ v.pairs[i].v.t = "string" /\ ValidUtf8(v.pairs[i].v.bytes)

\* the protocol has no objection to the number as the value of the property
ProtocolAllows(command, name, v) ==
    v.t = "number"
        => mosquitto_property_check_all(command, <<Prop(name, v.num, <<>>, <<>>)>>, 1)
               = MOSQ_ERR_SUCCESS

\* a value of a properties table as a handler would see the same value
AsSeen(v) ==
    CASE v.t = "number" -> DInt(v.num)
      [] v.t = "string" -> DStr(v.bytes)
      [] OTHER -> DTab({Field(ByteKey(v.pairs[i].k.s), DStr(v.pairs[i].v.bytes)) :
                           i \in 1..Len(v.pairs)})

\* the handler of the looped-back publication has been called
Delivered == ev_out.op # "none"

\* C12: for every registered name and every value valid for its wire type,
\* the encode of {name: value} for a command that permits the property
\* succeeds and the decode of the list it built gives {name: value} back.
C12_RoundTrip ==
    (/\ OneLegalEntry
     /\ cx_out.op = "publish_v5"
     /\ ValidValue(TypeOf(cx_in.props[1].k.s), cx_in.props[1].v)
     /\ ProtocolAllows("CMD_PUBLISH", cx_in.props[1].k.s, cx_in.props[1].v))
        => /\ EncodeSucceeded
           /\ Delivered =>
                ev_out.root = {Field(NameKey(cx_in.props[1].k.s),
                                     AsSeen(cx_in.props[1].v))}

\* a v5 trampoline has run and its decoder read every value
V5Kinds ==
    {"connect_v5", "disconnect_v5", "publish_v5", "message_v5", "subscribe_v5",
     "unsubscribe_v5"}
Decoded == ev_out.op \in V5Kinds /\ ev_out.rc = MOSQ_ERR_SUCCESS
IsUser(p) == p.identifier = "user-property"

\* position i holds the last entry of the list with its identifier (and,
\* for a user property, its name)
LastOfItsKey(list, i) ==
    \A j \in (i + 1)..Len(list) :
        \/ list[j].identifier # list[i].identifier
        \/ IsUser(list[i]) /\ CStr(list[j].name) # CStr(list[i].name)

\* the pairs of the user properties of a list, the later of two with the
\* same name
UserPairs(list) ==
    {Field(ByteKey(CStr(list[i].name)), DStr(CStr(list[i].bytes))) :
        i \in {k \in 1..Len(list) : IsUser(list[k]) /\ LastOfItsKey(list, k)}}

\* the fields of the root table under the name of the user property
UserFields(root) == {f \in root : f.k = NameKey("user-property")}

\* C13: decoding a list with one or more user properties, at any positions
\* among other properties, gives a root table with exactly one field
\* "user-property", a table that holds every pair of those entries, a later
\* entry replacing an earlier one of the same name.
C13_OneNestedMapWithEveryPair ==
    (Decoded /\ \E i \in 1..Len(ev_in.props) : IsUser(ev_in.props[i]))
        => UserFields(ev_out.root)
               = {Field(NameKey("user-property"), DTab(UserPairs(ev_in.props)))}

C13_Witness ==
    /\ Decoded
    /\ ev_in.props = <<Prop("user-property", Small(0), <<97>>, <<120>>),
                       Prop("content-type", Small(0), <<>>, <<97>>),
                       Prop("user-property", Small(0), <<97>>, <<121>>)>>
    /\ UserFields(ev_out.root)
           = {Field(NameKey("user-property"),
                    DTab({Field(ByteKey(<<97>>), DStr(<<121>>))}))}

\* the Lua value the decoder pushes for an entry that is no user property
PushedValue(p, lint) ==
    CASE TypeOf(p.identifier) = "STRING" -> DStr(CStr(p.bytes))
      [] TypeOf(p.identifier) = "BINARY" -> DStr(p.bytes)
      [] OTHER -> PushInteger(p.num, lint)

\* the fields that tables nested in the root table hold
NestedFields(root) == UNION {f.v.pairs : f \in root}

ExpectedMap(list, lint) ==
    {Field(NameKey(list[i].identifier), PushedValue(list[i], lint)) :
        i \in {k \in 1..Len(list) : ~IsUser(list[k]) /\ LastOfItsKey(list, k)}}
    \cup (IF \E i \in 1..Len(list) : IsUser(list[i])
          THEN {Field(NameKey("user-property"), DTab(UserPairs(list)))}
          ELSE {})

Ints(seq) == [i \in 1..Len(seq) |-> DInt(Small(seq[i]))]

\* the arguments the handler of each event is documented to get
Documented(e, properties) ==
    CASE e.kind = "connect" ->
           <<DBool(e.rc = 0), DInt(Small(e.rc)), mosquitto_connack_string(e.rc)>>
      [] e.kind = "connect_v5" ->
           <<DBool(e.rc = 0), DInt(Small(e.rc)), mosquitto_reason_string(e.rc),
             DInt(Small(e.flags)), properties>>
      [] e.kind = "disconnect" ->
           <<DBool(e.rc = 0), DInt(Small(e.rc)), DisconnectText(e.rc)>>
      [] e.kind = "disconnect_v5" ->
           <<DBool(e.rc = 0), DInt(Small(e.rc)), DisconnectText(e.rc), properties>>
      [] e.kind = "publish" -> <<DInt(Small(e.mid))>>
      [] e.kind = "publish_v5" ->
           <<DInt(Small(e.mid)), DInt(Small(e.rc)), mosquitto_reason_string(e.rc),
             properties>>
      [] e.kind = "message" ->
           <<DInt(Small(e.mid)), DStr(e.topic), DStr(e.payload),
             DInt(Small(e.qos)), DBool(e.retain)>>
      [] e.kind = "message_v5" ->
           <<DInt(Small(e.mid)), DStr(e.topic), DStr(e.payload),
             DInt(Small(e.qos)), DBool(e.retain), properties>>
      [] e.kind = "subscribe" -> <<DInt(Small(e.mid))>> \o Ints(e.granted)
      [] e.kind = "subscribe_v5" ->
           <<DInt(Small(e.mid)), properties>> \o Ints(e.granted)
      [] e.kind = "unsubscribe" -> <<DInt(Small(e.mid))>>
      [] e.kind = "unsubscribe_v5" -> <<DInt(Small(e.mid)), properties>>
      [] OTHER -> <<DInt(Small(e.level)), DStr(e.str)>>

\* C16: a dispatch whose properties were decoded calls the registered
\* handler with exactly the documented arguments in the documented order:
\* five for a message, six with the properties for a v5 message, the mid and
\* the qos_count granted QoS values for a subscribe ack, the mid, the
\* properties and then the granted QoS values for a v5 subscribe ack.
C16_DocumentedArguments ==
    (ev_out.op # "none" /\ ev_out.rc = MOSQ_ERR_SUCCESS)
        => /\ ev_out.called
           /\ ev_out.callee = Handler
           /\ ev_out.below = <<>>
           /\ ev_out.args
                  = Documented(ev_in, DTab(ExpectedMap(ev_in.props, ev_in.lint)))

C16_Witness ==
    /\ ev_out.op = "subscribe_v5" /\ ev_out.called
    /\ ev_in.granted = <<1, 0>>
    /\ ev_in.props = <<Prop("content-type", Small(0), <<>>, <<97>>)>>
    /\ ev_out.args
           = <<DInt(Small(1)),
               DTab({Field(NameKey("content-type"), DStr(<<97>>))}),
               DInt(Small(1)), DInt(Small(0))>>

\* C20: when the decoder fails on the properties of a v5 event, the handler
\* is not called, neither with a partly decoded table nor with shifted
\* arguments.
C20_FailedDecodeAborts ==
    (ev_out.op \in V5Kinds /\ ev_out.rc # MOSQ_ERR_SUCCESS) => ~ev_out.called

\* ---- the life of a context
\* C21: destruction is terminal: once a context is destroyed no call on it
\* succeeds, so no slot is registered again, the native handle is not
\* destroyed a second time and no handler reference is released again.
C21_DestructionTerminal ==
    [][mosq = "freed"
          => /\ nfree' = nfree
             /\ slots' = slots /\ installed' = installed
             /\ registry' = registry /\ freelist' = freelist]_vars

\* the slot of kind k is registered: the native library holds the
\* trampoline and the field refers to a function
RegisteredSlot(k) ==
    k \in installed /\ lua_isfunction(lua_rawgeti(registry, slots[k]))

\* the step is a native delivery
Delivery == last'.op = "deliver" /\ last' # last

\* C22: dispatch is synchronous and unqueued: a native delivery of an event
\* whose slot is registered calls the handler registered at that moment,
\* once and at once, and no other delivery is dispatched until that handler
\* has returned, so handlers see the events in the order of delivery.
C22_SynchronousDispatch ==
    [][/\ (Delivery /\ RegisteredSlot(last'.kind))
            => /\ running = NoRun
               /\ last'.res.shape = "called"
               /\ running' = [kind |-> last'.kind,
                              callee |-> lua_rawgeti(registry, slots[last'.kind])]
               /\ UNCHANGED <<slots, installed, registry, freelist>>
       /\ running # NoRun => ~Delivery]_vars

C22_Witness ==
    /\ last.op = "deliver" /\ last.res.shape = "called"
    /\ running = [kind |-> "on_connect", callee |-> Fn("f2")]
    /\ slots["on_connect"] = 2
    /\ registry[1] = Fn("f1")

\* the event kind the selector of a callback_set names, "none" if it names
\* none
SelectedKind(args) ==
    LET sel == StackAt(args, 2)
        id  == IF lua_isstring(sel) THEN callback_type_from_string(sel.v) ELSE -1
    IN  IF id \in 0..(Len(callback_types) - 1) THEN callback_types[id + 1]
        ELSE "none"

\* C23: the slot of an event kind changes only through a callback_set for
\* that kind that succeeds, through reinitialise or through destroy; any
\* other step, a delivery, a callback_set for another kind or a rejected
\* callback_set among them, leaves it as it was.
C23_SlotFrame ==
    [][\A k \in Kinds :
          slots'[k] # slots[k]
              => \/ last'.op \in {"reinitialise", "destroy"}
                 \/ /\ last'.op = "callback_set"
                    /\ last'.res.shape = "return"
                    /\ SelectedKind(last'.args) = k]_vars

C23_Witness ==
    /\ last.op = "callback_set" /\ last.res.shape = "return"
    /\ last.args = <<Str("ON_MESSAGE_V5"), Fn("f2")>>
    /\ slots["on_connect"] = 1 /\ registry[1] = Fn("f1")
    /\ slots["on_message_v5"] = 2
    /\ \A k \in Kinds \ {"on_connect", "on_message_v5"} : slots[k] = LUA_REFNIL

\* C24: a context is never destroyed while a dispatch against it is in
\* progress, whatever the host and the handlers call: while a handler runs,
\* the native handle of its client is live.
C24_NotDestroyedWhileDispatching ==
    running # NoRun => mosq = "live"

\* C25: in every state of a live context, if the native library holds the
\* trampoline of an event kind, the slot of that kind holds a live reference
\* to a handler: a trampoline never finds an empty slot.
C25_TrampolineHasHandler ==
    Live => \A k \in installed :
               /\ slots[k] \in LiveRefs(registry, freelist)
               /\ lua_isfunction(lua_rawgeti(registry, slots[k]))

\* the step is a callback_set that succeeded, made while a handler runs,
\* for the kind of that handler
ReRegistration ==
    /\ running # NoRun
    /\ last' # last
    /\ last'.op = "callback_set" /\ last'.res.shape = "return"
    /\ Len(last'.args) = 2
    /\ SelectedKind(last'.args) = running.kind

\* C26: when a handler, while it runs for an event kind, registers another
\* handler for that kind on its own client, the invocation in progress goes
\* on with the handler fetched when the dispatch began, the slot refers to
\* the new handler, and the next delivery of the kind calls what the slot
\* refers to then.
C26_ReRegistrationWhileRunning ==
    [][/\ ReRegistration
            => /\ running' = running
               /\ lua_rawgeti(registry', slots'[running.kind]) = last'.args[2]
       /\ (running = NoRun /\ running' # NoRun)
            => running'.callee = lua_rawgeti(registry, slots[running'.kind])]_vars

C26_Witness ==
    /\ running = [kind |-> "on_connect", callee |-> Fn("f1")]
    /\ last.op = "callback_set" /\ last.res.shape = "return"
    /\ last.args = <<Str("ON_CONNECT"), Fn("f2")>>
    /\ lua_rawgeti(registry, slots["on_connect"]) = Fn("f2")

\* ---- the inner pairs of a user property
\* the native layer refuses to add the pair
RejectedPair(pr) ==
    mosquitto_property_add_string_pair(<<>>, "user-property", pr.k.s,
                                       ValueText(pr.v)).rc # MOSQ_ERR_SUCCESS

\* C27: the encode fails whenever the native layer rejects the addition of
\* one property, a single pair of the nested table of a user property
\* included: the rejection of a pair is not masked by a later pair that is
\* added.
C27_RejectedPairFailsEncode ==
    (/\ OneLegalEntry
     /\ cx_in.props[1].k.s = "user-property"
     /\ cx_in.props[1].v.t = "table"
     /\ \E i \in 1..Len(cx_in.props[1].v.pairs) :
          /\ cx_in.props[1].v.pairs[i].k.t = "string"
          /\ RejectedPair(cx_in.props[1].v.pairs[i]))
        => EncodeFailed

\* ---- selectors that name no event kind
EventNames == {D[i][1] : i \in 1..Len(callback_types)}

\* the selector is a name that is none of the thirteen event names, or a
\* number that is none of the thirteen callback ids
NamesNoKind(sel) ==
    \/ sel.t = "string" /\ sel.v \notin EventNames
    \/ sel.t = "number" /\ sel.n \notin 0..(Len(callback_types) - 1)

\* C28: a callback_set whose selector names none of the thirteen event
\* kinds, an unknown name, the name of another constant such as LOG_NONE or
\* a number out of range, is rejected with an error; it changes no slot,
\* installs no trampoline and releases the reference it took for the
\* handler.
C28_UnknownKindRejected ==
    [][(/\ last' # last
        /\ last'.op = "callback_set"
        /\ lua_isfunction(StackAt(last'.args, 3))
        /\ NamesNoKind(StackAt(last'.args, 2)))
          => /\ last'.res.shape = "raise"
             /\ UNCHANGED <<slots, installed>>
             /\ LiveRefs(registry', freelist') = LiveRefs(registry, freelist)
             /\ \A ref \in LiveRefs(registry, freelist) :
                    registry'[ref] = registry[ref]]_vars

C28_Witness ==
    /\ last.op = "callback_set"
    /\ last.args = <<Str("LOG_NONE"), Fn("f2")>>
    /\ last.res = Raise("luaL_argerror", <<RInt(2)>>)
    /\ slots["on_connect"] = 1 /\ registry[1] = Fn("f1")
    /\ installed = {"on_connect"}
    /\ acquired = {1, 2}
    /\ LiveRefs(registry, freelist) = {1}

\* ---- the module
\* C29: after any sequence of module load, init and cleanup calls, the flag
\* mosq_initialized is 1 exactly when the native library is initialised,
\* and the library has been initialised at most once since the last cleanup.
C29_FlagTracksLibrary ==
    /\ (mosq_initialized = 1) <=> (lib_inits >= 1)
    /\ lib_inits <= 1
====
